---- MODULE Spec2Model ----
(***************************************************************************)
(* Payment-to-license fulfilment pipeline of stripe_server: the Stripe     *)
(* webhook, handle_successful_payment, the license key deriver, the sales  *)
(* ledger (table ventas), the invoice generator and the Brevo e-mail       *)
(* sender.                                                                 *)
(*                                                                         *)
(* Conventions.  A Python str is a sequence of one-character strings.      *)
(* Python None in a str position is the one-element sequence None, which   *)
(* is no character of any text.  An amount is kept in cents: the float     *)
(* amount_total / 100 of the code is the pair (cents DIV 100, cents % 100).*)
(* An optional bytes value is a sequence of length 0 (None) or 1.          *)
(***************************************************************************)
EXTENDS Integers, Sequences, FiniteSets, TLC

(***************************************************************************)
(* Bounds of the model.                                                    *)
(***************************************************************************)
\* Number of webhook deliveries (requests to /webhook) in one behaviour.
MaxDeliveries == 2

(***************************************************************************)
(* Text: str.strip(), str.upper(), truthiness.                             *)
(***************************************************************************)
None == <<"<None>">>

LowerChars == <<"a", "b", "c", "d", "e", "f", "r", "u">>
UpperChars == <<"A", "B", "C", "D", "E", "F", "R", "U">>
OtherChars ==
    <<"0", "1", "2", "3", "4", "5", "6", "7", "8", "9", " ", "|", "-", "@", "_", ",", ".">>
Alphabet == LowerChars \o UpperChars \o OtherChars

IsSpace(c) == c = " "

\* str.upper() on one character.
UpperChar(c) ==
    IF \E i \in 1..Len(LowerChars) : LowerChars[i] = c
    THEN UpperChars[CHOOSE i \in 1..Len(LowerChars) : LowerChars[i] = c]
    ELSE c

\* str.lower() on one character.
LowerChar(c) ==
    IF \E i \in 1..Len(UpperChars) : UpperChars[i] = c
    THEN LowerChars[CHOOSE i \in 1..Len(UpperChars) : UpperChars[i] = c]
    ELSE c

\* str.lower()
Lower(s) == [i \in 1..Len(s) |-> LowerChar(s[i])]

\* str.upper()
Upper(s) == [i \in 1..Len(s) |-> UpperChar(s[i])]

RECURSIVE LStrip(_)
LStrip(s) == IF s # <<>> /\ IsSpace(Head(s)) THEN LStrip(Tail(s)) ELSE s

RECURSIVE RStrip(_)
RStrip(s) ==
    IF s # <<>> /\ IsSpace(s[Len(s)]) THEN RStrip(SubSeq(s, 1, Len(s) - 1)) ELSE s

\* str.strip()
Strip(s) == RStrip(LStrip(s))

\* Python truthiness of an Optional[str]: None and '' are falsy.
Truthy(s) == s # None /\ s # <<>>

(***************************************************************************)
(* license_generator.py                                                    *)
(***************************************************************************)
\* hashlib.sha256(..).hexdigest() has 64 hexadecimal characters.
DigestHexLen == 64
\* [:24]
KeyLen == 24

HexDigits == <<"0", "1", "2", "3", "4", "5", "6", "7", "8", "9", "a", "b", "c", "d", "e", "f">>

Digit(n) == HexDigits[n + 1]

RECURSIVE Digits(_)
\* str(n) for n >= 0
Digits(n) == IF n < 10 THEN <<Digit(n)>> ELSE Digits(n \div 10) \o <<Digit(n % 10)>>

\* The code point of a character, as its place in the alphabet.
CharCodeTable ==
    [c \in {Alphabet[i] : i \in 1..Len(Alphabet)} |->
        CHOOSE i \in 1..Len(Alphabet) : Alphabet[i] = c]

CharCode(c) == CharCodeTable[c]

RECURSIVE Absorb(_, _, _)
\* The digest state after the characters j.. of s have been absorbed into h.
Absorb(s, j, h) ==
    IF j > Len(s) THEN h
    ELSE Absorb(s, j + 1, (h * 31 + CharCode(s[j])) % 65521)

\* The i-th hexadecimal digit squeezed out of the digest state h.
Squeeze(h, i) ==
    CASE i % 4 = 1 -> (h + 7 * i) % 16
      [] i % 4 = 2 -> ((h \div 16) + 5 * i) % 16
      [] i % 4 = 3 -> ((h \div 256) + 3 * i) % 16
      [] OTHER -> ((h \div 4096) + i) % 16

\* hashlib.sha256(raw_data.encode()).hexdigest(): a fixed digest of the text, 64
\* lower-case hexadecimal characters.  The library's compression function is
\* replaced by a small absorb-and-squeeze function: what the program relies on
\* is that the digest is a function of the text alone.
Sha256Hex(s) ==
    LET h == Absorb(s, 1, Len(s) + 1)
    IN [i \in 1..DigestHexLen |-> HexDigits[Squeeze(h, i) + 1]]

\* raw_data built from the name as typed: clean_name without .upper().
RawDataNameAsTyped(hardware_id, user_name, secret) ==
    Strip(hardware_id) \o <<"|">> \o Strip(user_name) \o <<"|">> \o secret

\* raw_data = f"{clean_hwid}|{clean_name}|{SECRET_KEY}"
RawData(hardware_id, user_name, secret) ==
    Strip(hardware_id) \o <<"|">> \o Upper(Strip(user_name)) \o <<"|">> \o secret

\* generate_license_hash without the check of SECRET_KEY.
DeriveRaisesNever(secret) == FALSE

\* generate_license_hash raises ValueError when SECRET_KEY is falsy.
DeriveRaises(secret) == secret = <<>>

\* generate_license_hash without the final .upper(): the hexdigest as it is.
GenerateLicenseHashLower(hardware_id, user_name, secret) ==
    SubSeq(Sha256Hex(RawData(hardware_id, user_name, secret)), 1, KeyLen)

\* generate_license_hash(hardware_id, user_name) with SECRET_KEY = secret.
GenerateLicenseHash(hardware_id, user_name, secret) ==
    Upper(SubSeq(Sha256Hex(RawData(hardware_id, user_name, secret)), 1, KeyLen))

\* verify_license comparing the key as typed: without key.strip().upper().
VerifyLicenseExact(key, hardware_id, user_name, secret) ==
    key = GenerateLicenseHash(hardware_id, user_name, secret)

\* verify_license(key, hardware_id, user_name) when generate_license_hash
\* returns: key.strip().upper() == expected_key.
VerifyLicense(key, hardware_id, user_name, secret) ==
    Upper(Strip(key)) = GenerateLicenseHash(hardware_id, user_name, secret)

\* What a call returns or raises: raised is "" or the name of the exception.
Returned(value) == [raised |-> "", value |-> value]
Raised(exc) == [raised |-> exc, value |-> <<>>]

\* The bool verify_license returns, as Python prints it.
Bool(b) == IF b THEN <<"True">> ELSE <<"False">>

\* A call of generate_license_hash, as its caller sees it.
GenerateLicenseHashCall(hardware_id, user_name, secret) ==
    IF DeriveRaises(secret) THEN Raised("ValueError")
    ELSE Returned(GenerateLicenseHash(hardware_id, user_name, secret))

\* A call of verify_license, as its caller sees it: the ValueError of
\* generate_license_hash leaves verify_license too.
VerifyLicenseCall(key, hardware_id, user_name, secret) ==
    IF DeriveRaises(secret) THEN Raised("ValueError")
    ELSE Returned(Bool(VerifyLicense(key, hardware_id, user_name, secret)))


(***************************************************************************)
(* The events Stripe delivers.  A checkout session is an immutable object  *)
(* of the payment provider; a redelivery carries the same session.         *)
(***************************************************************************)
\* session.amount_total is None
NoAmount == -1

Str_ada == <<" ", "a", "d", "a", " ">>
Str_bea == <<"B", "e", "a">>
Str_hw1 == <<"A", "B", "-", "1">>
Str_hw2 == <<"a", "b", "-", "2", " ">>
Str_eur == <<"e", "u", "r">>

\* A session created by crear_sesion_pago: every metadata key present.
Metadata(nombre, hw_id) ==
    [nombre |-> nombre, hw_id |-> hw_id, juzgado |-> <<"1">>,
     numero_juzgado |-> <<"2">>, partido_judicial |-> <<>>]

SessionA ==
    [id |-> "cs_A", payment_status |-> "paid", metadata |-> Metadata(Str_ada, Str_hw1),
     customer_email |-> "ada@x", amount_total |-> 30000, currency |-> Str_eur,
     payment_intent |-> "pi_A", customer |-> "cus_A"]

\* A paid session without a payment intent and without the metadata keys
\* nombre / juzgado (a session this server did not create).
SessionB ==
    [id |-> "cs_B", payment_status |-> "paid",
     metadata |-> [nombre |-> Str_bea, hw_id |-> Str_hw2, juzgado |-> None,
                   numero_juzgado |-> None, partido_judicial |-> None],
     customer_email |-> "bea@x", amount_total |-> 10000, currency |-> Str_eur,
     payment_intent |-> "", customer |-> ""]

\* A paid session whose amount_total is null.
SessionNoAmount == [SessionA EXCEPT !.id = "cs_N", !.amount_total = NoAmount]

\* A later purchase of the customer of SessionA for the same machine, at
\* another price.
SessionC ==
    [SessionA EXCEPT !.id = "cs_C", !.amount_total = 25000, !.payment_intent = "pi_C"]

SessionUnpaid == [SessionA EXCEPT !.id = "cs_U", !.payment_status = "unpaid"]

Event(payload_ok, signature_ok, type, session) ==
    [payload_ok |-> payload_ok, signature_ok |-> signature_ok, type |-> type,
     session |-> session]

Completed == "checkout.session.completed"

PaidEvents == {Event(TRUE, TRUE, Completed, SessionA), Event(TRUE, TRUE, Completed, SessionB)}

Events ==
    PaidEvents \cup
    {Event(TRUE, TRUE, Completed, SessionNoAmount),
     Event(TRUE, TRUE, Completed, SessionUnpaid),
     Event(TRUE, TRUE, "payment_intent.created", SessionA),
     Event(TRUE, FALSE, Completed, SessionA),
     Event(FALSE, TRUE, Completed, SessionA)}

NoEvent == Event(FALSE, FALSE, "", SessionUnpaid)

(***************************************************************************)
(* State                                                                   *)
(***************************************************************************)
VARIABLES
    SECRET_KEY,      \* license_generator.SECRET_KEY
    BREVO_API_KEY,   \* email_sender.BREVO_API_KEY
    ventas,          \* the rows of table ventas, in insertion order
    next_id,         \* the SERIAL sequence of ventas.id
    clock,           \* seconds since midnight at the last reading of the clock
    event,           \* event[r]: the event of delivery r
    pc,              \* pc[r]: where the request thread of delivery r stands
    loc,             \* loc[r]: the local variables of handle_successful_payment
    steps,           \* steps[r]: the steps delivery r has taken, in order
    log,             \* log[r]: what the request thread of delivery r printed
    response,        \* response[r]: the HTTP answer of delivery r
    returned,        \* returned[r]: what handle_successful_payment returned
    thread,          \* thread[r]: the e-mail thread started by delivery r
    page,            \* what the last request to /exito was answered with
    calls,           \* the calls of license_generator made directly, in order
    report           \* what the last read of the ledger (database.py) returned

vars == <<SECRET_KEY, BREVO_API_KEY, ventas, next_id, clock,
          event, pc, loc, steps, log, response, returned, thread,
          page, calls, report>>

\* What the requests outside /webhook write.
views == <<page, calls, report>>

config == <<SECRET_KEY, BREVO_API_KEY>>

Deliveries == 1..MaxDeliveries

\* Latest second of the day the clock reaches in a behaviour.
MaxClock == 1

NoResponse == [code |-> 0, body |-> ""]

\* No request to /exito yet.
NoPage ==
    [session_id |-> "", code |-> 0, template |-> "", license_key |-> None,
     nombre |-> None, email |-> ""]

\* No read of the ledger yet.
NoReport ==
    [fn |-> "", outcome |-> "", rows |-> 0, result |-> <<>>, reads |-> <<>>,
     seen |-> <<>>, error |-> ""]

InitLoc ==
    [nombre |-> None, hw_id |-> None, email |-> "", amount |-> NoAmount,
     currency |-> None, session_id |-> "", juzgado |-> None,
     numero_juzgado |-> None, partido_judicial |-> None,
     payment_intent |-> "", customer_id |-> "",
     pais_facturacion |-> None, direccion_facturacion |-> None,
     license_key |-> None, numero_factura |-> None, invoice_pdf |-> <<>>,
     invoice_filename |-> None]

\* state: "none" (never started), "started", "ended"; attempts counts the
\* calls of send_license_email the thread has made.
InitThread ==
    [state |-> "none", email_data |-> <<>>, outcome |-> "not_called",
     result |-> "none", log |-> <<>>, attempts |-> 0]

\* The state of the webhook deliveries.
pipeline == <<ventas, next_id, clock, event, pc, loc, steps, log, response,
              returned, thread>>

\* No delivery has arrived, the ledger is empty.
InitPipeline ==
    /\ ventas = <<>>
    /\ next_id = 1
    /\ clock = 0
    /\ event = [r \in Deliveries |-> NoEvent]
    /\ pc = [r \in Deliveries |-> "idle"]
    /\ loc = [r \in Deliveries |-> InitLoc]
    /\ steps = [r \in Deliveries |-> <<>>]
    /\ log = [r \in Deliveries |-> <<>>]
    /\ response = [r \in Deliveries |-> NoResponse]
    /\ returned = [r \in Deliveries |-> "not_called"]
    /\ thread = [r \in Deliveries |-> InitThread]

Init ==
    /\ SECRET_KEY \in {<<>>, <<"5", "3", "c">>}
    /\ BREVO_API_KEY \in {<<>>, <<"k", "e", "y">>}
    /\ ventas = <<>>
    /\ next_id = 1
    /\ clock = 0
    /\ event = [r \in Deliveries |-> NoEvent]
    /\ pc = [r \in Deliveries |-> "idle"]
    /\ loc = [r \in Deliveries |-> InitLoc]
    /\ steps = [r \in Deliveries |-> <<>>]
    /\ log = [r \in Deliveries |-> <<>>]
    /\ response = [r \in Deliveries |-> NoResponse]
    /\ returned = [r \in Deliveries |-> "not_called"]
    /\ thread = [r \in Deliveries |-> InitThread]
    /\ page = NoPage
    /\ calls = <<>>
    /\ report = NoReport


(***************************************************************************)
(* Helpers of the request thread                                           *)
(***************************************************************************)
\* session.metadata.get(key, ''): a missing key reads as ''.
MetaGet(metadata, key) == IF metadata[key] = None THEN <<>> ELSE metadata[key]

Step(name, ok, ref) == [step |-> name, ok |-> ok, ref |-> ref]

\* The times a reading of the clock can return: the clock never runs backwards.
ClockReadings == clock..MaxClock

\* The exceptions the steps raise; each is a subclass of Exception.
Exceptions == {"TypeError", "ValueError", "DatabaseError"}

\* except Exception as e (app.py, handle_successful_payment): the handler of the
\* whole function catches every exception a step raises.
OuterHandlerCatches(exc) == exc \in Exceptions

\* The request thread of delivery r after a step raised exc inside the outer try.
Raise(r, exc, name) ==
    /\ steps' = [steps EXCEPT ![r] = Append(@, Step(name, FALSE, 0))]
    /\ IF OuterHandlerCatches(exc)
       THEN /\ log' = [log EXCEPT ![r] = Append(@, "error_procesando_pago: " \o exc)]
            /\ pc' = [pc EXCEPT ![r] = "aborted"]
       ELSE /\ log' = log
            /\ pc' = [pc EXCEPT ![r] = "propagated"]

(***************************************************************************)
(* webhook(): signature check and dispatch on the event                    *)
(***************************************************************************)
\* A webhook() that parses the event without verifying its signature.
WebhookUnverified(r, e) ==
    /\ pc[r] = "idle"
    /\ \A q \in Deliveries : q < r => pc[q] # "idle"
    /\ event' = [event EXCEPT ![r] = e]
    /\ IF ~e.payload_ok
       THEN /\ response' = [response EXCEPT ![r] = [code |-> 400, body |-> "Invalid payload"]]
            /\ log' = [log EXCEPT ![r] = Append(@, "payload_invalido")]
            /\ pc' = [pc EXCEPT ![r] = "responded"]
       ELSE IF e.type = Completed /\ e.session.payment_status = "paid"
       THEN /\ pc' = [pc EXCEPT ![r] = "extract"]
            /\ UNCHANGED <<response, log>>
       ELSE /\ response' = [response EXCEPT ![r] = [code |-> 200, body |-> "success"]]
            /\ pc' = [pc EXCEPT ![r] = "responded"]
            /\ UNCHANGED log
    /\ UNCHANGED <<config, views, ventas, next_id, clock, loc, steps, returned, thread>>

Webhook(r, e) ==
    /\ pc[r] = "idle"
    /\ \A q \in Deliveries : q < r => pc[q] # "idle"
    /\ event' = [event EXCEPT ![r] = e]
    /\ IF ~e.payload_ok
       THEN /\ response' = [response EXCEPT ![r] = [code |-> 400, body |-> "Invalid payload"]]
            /\ log' = [log EXCEPT ![r] = Append(@, "payload_invalido")]
            /\ pc' = [pc EXCEPT ![r] = "responded"]
       ELSE IF ~e.signature_ok
       THEN /\ response' = [response EXCEPT ![r] = [code |-> 400, body |-> "Invalid signature"]]
            /\ log' = [log EXCEPT ![r] = Append(@, "firma_invalida")]
            /\ pc' = [pc EXCEPT ![r] = "responded"]
       ELSE IF e.type = Completed /\ e.session.payment_status = "paid"
       THEN /\ pc' = [pc EXCEPT ![r] = "extract"]
            /\ UNCHANGED <<response, log>>
       ELSE /\ response' = [response EXCEPT ![r] = [code |-> 200, body |-> "success"]]
            /\ pc' = [pc EXCEPT ![r] = "responded"]
            /\ UNCHANGED log
    /\ UNCHANGED <<config, views, ventas, next_id, clock, loc, steps, returned, thread>>

(***************************************************************************)
(* handle_successful_payment: reading the session                          *)
(***************************************************************************)
Extract(r) ==
    /\ pc[r] = "extract"
    /\ LET session == event[r].session IN
       IF session.amount_total = NoAmount
       THEN \* None / 100 raises TypeError
            /\ Raise(r, "TypeError", "extract")
            /\ UNCHANGED loc
       ELSE /\ loc' = [loc EXCEPT ![r] =
                 [@ EXCEPT !.nombre = MetaGet(session.metadata, "nombre"),
                           !.hw_id = MetaGet(session.metadata, "hw_id"),
                           !.email = session.customer_email,
                           !.amount = session.amount_total,
                           !.currency = Upper(session.currency),
                           !.session_id = session.id,
                           !.juzgado = MetaGet(session.metadata, "juzgado"),
                           !.numero_juzgado = MetaGet(session.metadata, "numero_juzgado"),
                           !.partido_judicial = MetaGet(session.metadata, "partido_judicial"),
                           !.payment_intent = session.payment_intent,
                           !.customer_id = session.customer]]
            /\ steps' = [steps EXCEPT ![r] = Append(@, Step("extract", TRUE, 0))]
            /\ pc' = [pc EXCEPT ![r] = "billing"]
            /\ UNCHANGED log
    /\ UNCHANGED <<config, views, ventas, next_id, clock, event, response, returned, thread>>

\* The billing address of the charge of a payment intent.
BillingAddress ==
    [line1 |-> <<"c", " ", "1">>, line2 |-> None, postal_code |-> <<"3", "5">>,
     city |-> None, state |-> <<"B", "C">>, country |-> <<"E", "B">>]

Or(s, default) == IF Truthy(s) THEN s ELSE default

RECURSIVE Join(_, _)
\* sep.join(parts)
Join(parts, sep) ==
    IF parts = <<>> THEN <<>>
    ELSE IF Len(parts) = 1 THEN parts[1]
    ELSE parts[1] \o sep \o Join(Tail(parts), sep)

\* direccion_facturacion built from billing.address
Direccion(addr) ==
    LET city_line == Strip(Or(addr.postal_code, <<>>) \o <<" ">> \o Or(addr.city, <<>>))
        parts == (IF Truthy(addr.line1) THEN <<addr.line1>> ELSE <<>>)
              \o (IF Truthy(addr.line2) THEN <<addr.line2>> ELSE <<>>)
              \o (IF (Truthy(addr.postal_code) \/ Truthy(addr.city)) /\ city_line # <<>>
                  THEN <<city_line>> ELSE <<>>)
              \o (IF Truthy(addr.state) THEN <<addr.state>> ELSE <<>>)
    IN IF parts # <<>> THEN Join(parts, <<",", " ">>) ELSE None

\* What the billing lookup can meet: "error" (stripe.PaymentIntent.retrieve or
\* an attribute access raises), "address" (the charge has a billing address).
\* A lookup that finds no charge or no address leaves both variables None, as
\* an error does, without the log line.
BillingOutcomes == {"error", "address"}

BillingLookup(r, outcome) ==
    /\ pc[r] = "billing"
    /\ IF loc[r].payment_intent = ""
       THEN \* if payment_intent: is false, nothing is looked up
            /\ outcome = "address"
            /\ UNCHANGED <<loc, log>>
       ELSE IF outcome = "error"
       THEN /\ log' = [log EXCEPT ![r] = Append(@, "no_se_pudo_obtener_facturacion")]
            /\ UNCHANGED loc
       ELSE /\ loc' = [loc EXCEPT ![r] =
                 [@ EXCEPT !.pais_facturacion = BillingAddress.country,
                           !.direccion_facturacion = Direccion(BillingAddress)]]
            /\ UNCHANGED log
    /\ steps' = [steps EXCEPT ![r] =
                   Append(@, Step("billing", loc[r].payment_intent = "" \/ outcome # "error", 0))]
    /\ pc' = [pc EXCEPT ![r] = "derive"]
    /\ UNCHANGED <<config, views, ventas, next_id, clock, event, response, returned, thread>>

(***************************************************************************)
(* handle_successful_payment: license_key = generate_license_hash(..)      *)
(***************************************************************************)
\* A derivation that mixes the amount paid into the name.
DeriveWithAmount(r) ==
    /\ pc[r] = "derive"
    /\ IF DeriveRaises(SECRET_KEY)
       THEN /\ Raise(r, "ValueError", "derive")
            /\ UNCHANGED loc
       ELSE /\ loc' = [loc EXCEPT ![r].license_key =
                         GenerateLicenseHash(loc[r].hw_id,
                             loc[r].nombre \o Digits(loc[r].amount), SECRET_KEY)]
            /\ steps' = [steps EXCEPT ![r] = Append(@, Step("derive", TRUE, 0))]
            /\ pc' = [pc EXCEPT ![r] = "save"]
            /\ UNCHANGED log
    /\ UNCHANGED <<config, views, ventas, next_id, clock, event, response, returned, thread>>

Derive(r) ==
    /\ pc[r] = "derive"
    /\ IF DeriveRaises(SECRET_KEY)
       THEN /\ Raise(r, "ValueError", "derive")
            /\ UNCHANGED loc
       ELSE /\ loc' = [loc EXCEPT ![r].license_key =
                         GenerateLicenseHash(loc[r].hw_id, loc[r].nombre, SECRET_KEY)]
            /\ steps' = [steps EXCEPT ![r] = Append(@, Step("derive", TRUE, 0))]
            /\ pc' = [pc EXCEPT ![r] = "save"]
            /\ UNCHANGED log
    /\ UNCHANGED <<config, views, ventas, next_id, clock, event, response, returned, thread>>


(***************************************************************************)
(* database.py: get_connection, save_sale                                  *)
(***************************************************************************)
\* What one call of save_sale can meet: no connection (DATABASE_URL is unset
\* or psycopg2.connect raised), a failing INSERT or commit, a committed row.
SaveOutcomes == {"no_connection", "write_error", "ok"}

\* save_sale without the except clause around the INSERT.
SaveSaleResultUncaught(outcome) ==
    CASE outcome = "no_connection" -> "False"
      [] outcome = "write_error" -> "raised"
      [] outcome = "ok" -> "True"

\* save_sale as its caller sees it: "True" / "False" are its return values,
\* "raised" an exception leaving it.  get_connection() returning None gives
\* False; except Exception around the INSERT and the commit gives False.
SaveSaleResult(outcome) ==
    CASE outcome = "no_connection" -> "False"
      [] outcome = "write_error" -> "False"
      [] outcome = "ok" -> "True"

\* A row whose hw_id and license_key values are bound to each other's column.
RowColumnsSwapped(id, created_at, l) ==
    [id |-> id, nombre |-> l.nombre, email |-> l.email, hw_id |-> l.license_key,
     license_key |-> l.hw_id, amount |-> l.amount, currency |-> l.currency,
     stripe_session_id |-> l.session_id, created_at |-> created_at,
     juzgado |-> l.juzgado, numero_juzgado |-> l.numero_juzgado,
     partido_judicial |-> l.partido_judicial,
     stripe_payment_intent |-> l.payment_intent,
     stripe_customer_id |-> l.customer_id,
     pais_facturacion |-> l.pais_facturacion]

\* The row INSERT INTO ventas adds: id from the SERIAL sequence, created_at
\* from DEFAULT CURRENT_TIMESTAMP, the other columns from the arguments.
Row(id, created_at, l) ==
    [id |-> id, nombre |-> l.nombre, email |-> l.email, hw_id |-> l.hw_id,
     license_key |-> l.license_key, amount |-> l.amount, currency |-> l.currency,
     stripe_session_id |-> l.session_id, created_at |-> created_at,
     juzgado |-> l.juzgado, numero_juzgado |-> l.numero_juzgado,
     partido_judicial |-> l.partido_judicial,
     stripe_payment_intent |-> l.payment_intent,
     stripe_customer_id |-> l.customer_id,
     pais_facturacion |-> l.pais_facturacion]

\* An INSERT that skips a row whose stripe_session_id is in the table already.
InsertOncePerSession(table, row) ==
    IF \E i \in DOMAIN table : table[i].stripe_session_id = row.stripe_session_id
    THEN table ELSE Append(table, row)

\* An INSERT that overwrites the row of the same session (an upsert on
\* stripe_session_id), keeping its id.
InsertReplacing(table, row) ==
    IF \E i \in DOMAIN table : table[i].stripe_session_id = row.stripe_session_id
    THEN [i \in DOMAIN table |->
            IF table[i].stripe_session_id = row.stripe_session_id
            THEN [row EXCEPT !.id = table[i].id] ELSE table[i]]
    ELSE Append(table, row)

\* The table after a committed INSERT of row.
Insert(table, row) == Append(table, row)

\* save_sale(...) called by handle_successful_payment; its result is not used.
SaveSale(r, outcome) ==
    /\ pc[r] = "save"
    /\ LET result == SaveSaleResult(outcome) IN
       CASE result = "True" ->
              /\ ventas' = Insert(ventas, Row(next_id, clock, loc[r]))
              /\ next_id' = next_id + 1
              /\ log' = [log EXCEPT ![r] = Append(@, "venta_guardada")]
              /\ steps' = [steps EXCEPT ![r] = Append(@, Step("save", TRUE, next_id))]
              /\ pc' = [pc EXCEPT ![r] = "invoice"]
         [] result = "False" ->
              /\ log' = [log EXCEPT ![r] = Append(@, "venta_no_guardada")]
              /\ steps' = [steps EXCEPT ![r] = Append(@, Step("save", FALSE, 0))]
              /\ pc' = [pc EXCEPT ![r] = "invoice"]
              /\ UNCHANGED <<ventas, next_id>>
         [] result = "raised" ->
              /\ Raise(r, "DatabaseError", "save")
              /\ UNCHANGED <<ventas, next_id>>
    /\ UNCHANGED <<config, views, clock, event, loc, response, returned, thread>>

(***************************************************************************)
(* invoice_generator.py                                                    *)
(***************************************************************************)
\* IVA_PERCENT, default '21'
IVA_PERCENT == 21

\* The date of the behaviour: now.strftime('%Y') and now.strftime('%m%d').
Year == <<"2", "0", "2", "6">>
MonthDay == <<"1", "1", "0", "6">>

RECURSIVE ZeroPad(_, _)
\* format n with at least width digits, zero-padded: f"{n:04d}", strftime %H
ZeroPad(ds, width) == IF Len(ds) >= width THEN ds ELSE ZeroPad(<<"0">> \o ds, width)

\* now.strftime('%H%M%S') for the second t of the day
HHMMSS(t) ==
    ZeroPad(Digits(t \div 3600), 2) \o ZeroPad(Digits((t \div 60) % 60), 2)
        \o ZeroPad(Digits(t % 60), 2)

\* generate_invoice_number(sale_id), read at second t; sale_id 0 is None
\* (and is falsy as a number too).
GenerateInvoiceNumber(sale_id, t) ==
    IF sale_id # 0
    THEN Year \o <<"-">> \o MonthDay \o <<"-">> \o ZeroPad(Digits(sale_id), 4)
    ELSE Year \o <<"-">> \o MonthDay \o <<"-">> \o HHMMSS(t)

\* round(n / d) for n >= 0, d > 0
RoundDiv(n, d) == (2 * n + d) \div (2 * d)

\* A base_imponible cut to the cent below instead of rounded.
BaseImponibleTruncated(amount) == (amount * 100) \div (100 + IVA_PERCENT)

\* base_imponible = round(amount_total / (1 + IVA_PERCENT / 100), 2), in cents
BaseImponible(amount) == RoundDiv(amount * 100, 100 + IVA_PERCENT)

\* iva_amount = round(amount_total - base_imponible, 2), in cents
IvaAmount(amount) == amount - BaseImponible(amount)

\* What the generated document shows.
InvoiceDoc(l, numero_factura) ==
    [numero_factura |-> numero_factura, nombre |-> l.nombre, email |-> l.email,
     base_imponible |-> BaseImponible(l.amount), iva |-> IvaAmount(l.amount),
     total |-> l.amount, currency |-> l.currency, pais |-> l.pais_facturacion,
     direccion |-> l.direccion_facturacion]

\* f'{x:.2f}' for an amount of c cents, c >= 0
Fixed2(c) == Digits(c \div 100) \o <<".">> \o ZeroPad(Digits(c % 100), 2)

\* The three amounts as the totals block of the document prints them.
InvoiceTotals(doc) ==
    [base_imponible |-> Fixed2(doc.base_imponible) \o <<" ">> \o doc.currency,
     iva |-> Fixed2(doc.iva) \o <<" ">> \o doc.currency,
     total |-> Fixed2(doc.total) \o <<" ">> \o doc.currency]

\* generate_invoice_filename(numero_factura); the numbers this program
\* generates contain neither '/' nor '\'.
GenerateInvoiceFilename(numero_factura) ==
    <<"F", "a", "c", "t", "u", "r", "a", "_">> \o numero_factura \o <<".", "p", "d", "f">>

\* The except clause without invoice_pdf = None, reached after the document
\* was produced (generate_invoice_filename raising).
InvoiceVarsKeepDocument(l, numero_factura, ok) ==
    IF ok
    THEN [l EXCEPT !.numero_factura = numero_factura,
                   !.invoice_pdf = <<InvoiceDoc(l, numero_factura)>>,
                   !.invoice_filename = GenerateInvoiceFilename(numero_factura)]
    ELSE [l EXCEPT !.numero_factura = None,
                   !.invoice_pdf = <<InvoiceDoc(l, numero_factura)>>,
                   !.invoice_filename = None]

\* The except clause without numero_factura = None.
InvoiceVarsKeepNumber(l, numero_factura, ok) ==
    IF ok
    THEN [l EXCEPT !.numero_factura = numero_factura,
                   !.invoice_pdf = <<InvoiceDoc(l, numero_factura)>>,
                   !.invoice_filename = GenerateInvoiceFilename(numero_factura)]
    ELSE [l EXCEPT !.numero_factura = numero_factura, !.invoice_pdf = <<>>,
                   !.invoice_filename = None]

\* The three invoice variables after the try block of lines 263-280.
InvoiceVars(l, numero_factura, ok) ==
    IF ok
    THEN [l EXCEPT !.numero_factura = numero_factura,
                   !.invoice_pdf = <<InvoiceDoc(l, numero_factura)>>,
                   !.invoice_filename = GenerateInvoiceFilename(numero_factura)]
    ELSE [l EXCEPT !.numero_factura = None, !.invoice_pdf = <<>>,
                   !.invoice_filename = None]

\* numero_factura = generate_invoice_number() and the try block around
\* generate_invoice_pdf: ok is whether the document was produced.
Invoice(r, ok, t) ==
    /\ pc[r] = "invoice"
    /\ clock' = t
    /\ loc' = [loc EXCEPT ![r] = InvoiceVars(@, GenerateInvoiceNumber(0, t), ok)]
    /\ log' = [log EXCEPT ![r] =
                 @ \o <<"generando_factura",
                        IF ok THEN "factura_generada" ELSE "error_generando_factura">>]
    /\ steps' = [steps EXCEPT ![r] = Append(@, Step("invoice", ok, 0))]
    /\ pc' = [pc EXCEPT ![r] = "dispatch"]
    /\ UNCHANGED <<config, views, ventas, next_id, event, response, returned, thread>>


(***************************************************************************)
(* email_sender.py: send_license_email                                     *)
(***************************************************************************)
\* email_data as handed to the provider: subject, the invoice section of the
\* HTML body, the attachment.
EmailData(l) ==
    [to |-> l.email, nombre |-> l.nombre, hw_id |-> l.hw_id,
     license_key |-> l.license_key,
     invoice_section |-> (l.invoice_pdf # <<>> /\ Truthy(l.numero_factura)),
     invoice_number |-> IF l.invoice_pdf # <<>> /\ Truthy(l.numero_factura)
                        THEN l.numero_factura ELSE None,
     attachment |-> IF l.invoice_pdf # <<>> /\ Truthy(l.invoice_filename)
                    THEN <<[content |-> l.invoice_pdf[1], name |-> l.invoice_filename]>>
                    ELSE <<>>,
     subject |-> IF l.invoice_pdf # <<>> /\ Truthy(l.invoice_filename)
                 THEN "Su licencia y factura" ELSE "Su licencia"]

\* What the request to the provider can meet: a 2xx answer with a JSON body,
\* an HTTPError whose body can be read and decoded, an HTTPError whose body
\* cannot (e.read() or .decode('utf-8') raises inside the except clause), a
\* URLError, any other exception in the try block (a timeout, a 2xx answer
\* whose body json.loads rejects).
ProviderOutcomes ==
    {"accepted", "http_error", "http_error_unreadable", "url_error", "other_error"}

\* The try / except chain of send_license_email around the request:
\* "true" and "false" are its return values, "raised" an exception leaving it.
RequestResult(outcome) ==
    CASE outcome = "accepted" -> "true"
      [] outcome = "http_error_unreadable" -> "raised"
      [] OTHER -> "false"

\* send_license_email with BREVO_API_KEY = api_key.
SendLicenseEmail(api_key, outcome) ==
    IF api_key = <<>> THEN "false" ELSE RequestResult(outcome)

(***************************************************************************)
(* handle_successful_payment: the e-mail thread and the return             *)
(***************************************************************************)
\* What send_email_async prints for a result of send_license_email; its own
\* except Exception catches what send_license_email raises.
AsyncLog(result) ==
    CASE result = "true" -> <<"email_enviado">>
      [] result = "false" -> <<"no_se_pudo_enviar_email">>
      [] result = "raised" -> <<"error_enviando_email">>

\* An e-mail thread that can be started before the invoice is attempted.
StartThreadEarly(r) ==
    /\ pc[r] \in {"invoice", "dispatch"}
    /\ log' = [log EXCEPT ![r] = Append(@, "iniciando_envio")]
    /\ thread' = [thread EXCEPT ![r].state = "started"]
    /\ steps' = [steps EXCEPT ![r] = Append(@, Step("dispatch", TRUE, 0))]
    /\ pc' = [pc EXCEPT ![r] = "finish"]
    /\ UNCHANGED <<config, views, ventas, next_id, clock, event, loc, response, returned>>

\* email_thread = threading.Thread(target=send_email_async); daemon; start()
StartThread(r) ==
    /\ pc[r] = "dispatch"
    /\ log' = [log EXCEPT ![r] = Append(@, "iniciando_envio")]
    /\ thread' = [thread EXCEPT ![r].state = "started"]
    /\ steps' = [steps EXCEPT ![r] = Append(@, Step("dispatch", TRUE, 0))]
    /\ pc' = [pc EXCEPT ![r] = "finish"]
    /\ UNCHANGED <<config, views, ventas, next_id, clock, event, loc, response, returned>>

\* A send_email_async that deletes the sale of its run when the send fails.
SendEmailAsyncUnwinding(r, outcome) ==
    /\ thread[r].state = "started"
    /\ (BREVO_API_KEY = <<>>) <=> (outcome = "not_called")
    /\ LET result == SendLicenseEmail(BREVO_API_KEY, outcome) IN
       /\ thread' = [thread EXCEPT ![r] =
                    [state |-> "ended",
                     email_data |-> IF outcome = "not_called" THEN <<>>
                                    ELSE <<EmailData(loc[r])>>,
                     outcome |-> outcome,
                     result |-> result,
                     log |-> AsyncLog(result),
                     attempts |-> thread[r].attempts + 1]]
       /\ ventas' = IF result = "true" THEN ventas
                    ELSE SelectSeq(ventas, LAMBDA row :
                           row.stripe_session_id # loc[r].session_id)
    /\ UNCHANGED <<config, views, next_id, clock, event, pc, loc, steps, log,
                   response, returned>>

\* A send_email_async that reads the values of the run that started last
\* (the values kept in module-level variables instead of the closure).
SendEmailAsyncShared(r, outcome) ==
    /\ thread[r].state = "started"
    /\ (BREVO_API_KEY = <<>>) <=> (outcome = "not_called")
    /\ LET result == SendLicenseEmail(BREVO_API_KEY, outcome)
           last == CHOOSE q \in Deliveries :
                      /\ steps[q] # <<>>
                      /\ \A p \in Deliveries : steps[p] # <<>> => p <= q
       IN
       thread' = [thread EXCEPT ![r] =
                    [state |-> "ended",
                     email_data |-> IF outcome = "not_called" THEN <<>>
                                    ELSE <<EmailData(loc[last])>>,
                     outcome |-> outcome,
                     result |-> result,
                     log |-> AsyncLog(result),
                     attempts |-> thread[r].attempts + 1]]
    /\ UNCHANGED <<config, views, ventas, next_id, clock, event, pc, loc, steps, log,
                   response, returned>>

\* A send_email_async that calls send_license_email again, up to three
\* times, when a call did not return True.
SendEmailAsyncRetrying(r, outcome) ==
    /\ thread[r].state = "started"
    /\ (BREVO_API_KEY = <<>>) <=> (outcome = "not_called")
    /\ LET result == SendLicenseEmail(BREVO_API_KEY, outcome) IN
       thread' = [thread EXCEPT ![r] =
                    [state |-> IF result = "true" \/ thread[r].attempts >= 2
                               THEN "ended" ELSE "started",
                     email_data |-> IF outcome = "not_called" THEN <<>>
                                    ELSE <<EmailData(loc[r])>>,
                     outcome |-> outcome,
                     result |-> result,
                     log |-> AsyncLog(result),
                     attempts |-> thread[r].attempts + 1]]
    /\ UNCHANGED <<config, views, ventas, next_id, clock, event, pc, loc, steps, log,
                   response, returned>>

\* A send_email_async whose request has no timeout: a connection that never
\* answers leaves the thread waiting for ever.
SendEmailAsyncNoTimeout(r, outcome) ==
    /\ thread[r].state = "started"
    /\ (BREVO_API_KEY = <<>>) <=> (outcome = "not_called")
    /\ LET result == SendLicenseEmail(BREVO_API_KEY, outcome) IN
       thread' = [thread EXCEPT ![r] =
                    [state |-> IF outcome = "url_error" THEN "waiting" ELSE "ended",
                     email_data |-> IF outcome = "not_called" THEN <<>>
                                    ELSE <<EmailData(loc[r])>>,
                     outcome |-> outcome,
                     result |-> IF outcome = "url_error" THEN "none" ELSE result,
                     log |-> IF outcome = "url_error" THEN <<>> ELSE AsyncLog(result),
                     attempts |-> thread[r].attempts + 1]]
    /\ UNCHANGED <<config, views, ventas, next_id, clock, event, pc, loc, steps, log,
                   response, returned>>

\* send_email_async(), run by the e-mail thread.  outcome is what the request
\* to the provider meets; without an API key no request is made.
SendEmailAsync(r, outcome) ==
    /\ thread[r].state = "started"
    /\ (BREVO_API_KEY = <<>>) <=> (outcome = "not_called")
    /\ LET result == SendLicenseEmail(BREVO_API_KEY, outcome) IN
       thread' = [thread EXCEPT ![r] =
                    [state |-> "ended",
                     email_data |-> IF outcome = "not_called" THEN <<>>
                                    ELSE <<EmailData(loc[r])>>,
                     outcome |-> outcome,
                     result |-> result,
                     log |-> AsyncLog(result),
                     attempts |-> thread[r].attempts + 1]]
    /\ UNCHANGED <<config, views, ventas, next_id, clock, event, pc, loc, steps, log,
                   response, returned>>

\* A handle_successful_payment that returned the list of its steps.
ReturnValueSteps(l, taken) == IF taken = <<>> THEN "None" ELSE "steps"

\* The value handle_successful_payment hands back: it has no return statement.
ReturnValue(l, taken) == "None"

\* A handle_successful_payment that joins the e-mail thread before returning.
ReturnAfterJoin(r) ==
    /\ pc[r] \in {"finish", "aborted", "propagated"}
    /\ pc[r] = "finish" => thread[r].state = "ended"
    /\ log' = [log EXCEPT ![r] =
                 IF pc[r] = "finish" THEN Append(@, "licencia_generada") ELSE @]
    /\ returned' = [returned EXCEPT ![r] =
                 IF pc[r] = "propagated" THEN "raised" ELSE ReturnValue(loc[r], steps[r])]
    /\ response' = [response EXCEPT ![r] =
                 IF pc[r] = "propagated"
                 THEN [code |-> 500, body |-> "Internal Server Error"]
                 ELSE [code |-> 200, body |-> "success"]]
    /\ pc' = [pc EXCEPT ![r] = "responded"]
    /\ UNCHANGED <<config, views, ventas, next_id, clock, event, loc, steps, thread>>

\* The end of handle_successful_payment and of webhook(): the last print, the
\* return, and return jsonify({'status': 'success'}), 200.  An exception that
\* left handle_successful_payment would leave webhook() too (HTTP 500).
Return(r) ==
    /\ pc[r] \in {"finish", "aborted", "propagated"}
    /\ log' = [log EXCEPT ![r] =
                 IF pc[r] = "finish" THEN Append(@, "licencia_generada") ELSE @]
    /\ returned' = [returned EXCEPT ![r] =
                 IF pc[r] = "propagated" THEN "raised" ELSE ReturnValue(loc[r], steps[r])]
    /\ response' = [response EXCEPT ![r] =
                 IF pc[r] = "propagated"
                 THEN [code |-> 500, body |-> "Internal Server Error"]
                 ELSE [code |-> 200, body |-> "success"]]
    /\ pc' = [pc EXCEPT ![r] = "responded"]
    /\ UNCHANGED <<config, views, ventas, next_id, clock, event, loc, steps, thread>>

(***************************************************************************)
(* Specification                                                           *)
(***************************************************************************)
Next ==
    \E r \in Deliveries :
        \/ \E e \in Events : Webhook(r, e)
        \/ Extract(r)
        \/ \E outcome \in BillingOutcomes : BillingLookup(r, outcome)
        \/ Derive(r)
        \/ \E outcome \in SaveOutcomes : SaveSale(r, outcome)
        \/ \E ok \in BOOLEAN, t \in ClockReadings : Invoice(r, ok, t)
        \/ StartThread(r)
        \/ \E outcome \in ProviderOutcomes \cup {"not_called"} : SendEmailAsync(r, outcome)
        \/ Return(r)

Spec == Init /\ [][Next]_vars

(***************************************************************************)
(* The server process with its threads: the e-mail threads are daemon      *)
(* threads (email_thread.daemon = True), which end with the process        *)
(***************************************************************************)
\* The process exits: the requests in progress and the e-mail threads that
\* have not finished end there ("exited", "killed"), and no request is
\* served any more.
ProcessExit ==
    /\ \E r \in Deliveries : pc[r] # "exited"
    /\ pc' = [r \in Deliveries |-> IF pc[r] = "responded" THEN "responded" ELSE "exited"]
    /\ thread' = [r \in Deliveries |->
                    IF thread[r].state = "started"
                    THEN [thread[r] EXCEPT !.state = "killed"] ELSE thread[r]]
    /\ UNCHANGED <<config, views, ventas, next_id, clock, event, loc, steps, log,
                   response, returned>>

NextProcess == Next \/ ProcessExit

\* A started thread is scheduled: the interpreter switches between its
\* threads, and the request of send_license_email has a timeout of 30 s.
Scheduling ==
    \A r \in Deliveries :
        WF_vars(\E outcome \in ProviderOutcomes \cup {"not_called"} : SendEmailAsync(r, outcome))

SpecProcess == Init /\ [][NextProcess]_vars /\ Scheduling

(***************************************************************************)
(* app.py, exito(): the success page the customer is sent to after paying  *)
(***************************************************************************)
\* Number of webhook deliveries in a behaviour with requests to /exito.
MaxExitoDeliveries == 1

\* The checkout sessions the payment provider holds.
Sessions == {SessionA, SessionB, SessionNoAmount, SessionUnpaid}

\* request.args.get('session_id'): absent, the id of a session, an id the
\* provider does not know.
SessionIds == {"", "cs_X"} \cup {s.id : s \in Sessions}

\* stripe.checkout.Session.retrieve: the session, or a StripeError.
RetrieveOutcomes == {"ok", "stripe_error"}

ErrorPage(session_id, code, mensaje) ==
    [session_id |-> session_id, code |-> code, template |-> "error.html: " \o mensaje,
     license_key |-> None, nombre |-> None, email |-> ""]

\* exito() handing the name where the hardware id belongs.
ExitoLicenseKeySwapped(session, secret) ==
    GenerateLicenseHash(MetaGet(session.metadata, "nombre"),
                        MetaGet(session.metadata, "hw_id"), secret)

\* license_key = generate_license_hash(hw_id, nombre) in exito().
ExitoLicenseKey(session, secret) ==
    GenerateLicenseHash(MetaGet(session.metadata, "hw_id"),
                        MetaGet(session.metadata, "nombre"), secret)

\* exito() without the check of session.payment_status.
ExitoAnswerUnchecked(session_id, outcome, secret) ==
    IF session_id = "" THEN ErrorPage(session_id, 400, "Sesion no valida.")
    ELSE IF outcome = "stripe_error" \/ ~\E s \in Sessions : s.id = session_id
    THEN ErrorPage(session_id, 500, "Error al verificar el pago.")
    ELSE LET session == CHOOSE s \in Sessions : s.id = session_id IN
         IF DeriveRaises(secret)
         THEN [ErrorPage(session_id, 500, "") EXCEPT !.template = "Internal Server Error"]
         ELSE [session_id |-> session_id, code |-> 200, template |-> "exito.html",
               license_key |-> ExitoLicenseKey(session, secret),
               nombre |-> MetaGet(session.metadata, "nombre"),
               email |-> session.customer_email]

\* What exito() answers.  The ValueError of generate_license_hash is no
\* StripeError: it leaves exito() and the framework answers 500.
ExitoAnswer(session_id, outcome, secret) ==
    IF session_id = "" THEN ErrorPage(session_id, 400, "Sesion no valida.")
    ELSE IF outcome = "stripe_error" \/ ~\E s \in Sessions : s.id = session_id
    THEN ErrorPage(session_id, 500, "Error al verificar el pago.")
    ELSE LET session == CHOOSE s \in Sessions : s.id = session_id IN
         IF session.payment_status # "paid"
         THEN ErrorPage(session_id, 400, "El pago no se ha completado correctamente.")
         ELSE IF DeriveRaises(secret)
         THEN [ErrorPage(session_id, 500, "") EXCEPT !.template = "Internal Server Error"]
         ELSE [session_id |-> session_id, code |-> 200, template |-> "exito.html",
               license_key |-> ExitoLicenseKey(session, secret),
               nombre |-> MetaGet(session.metadata, "nombre"),
               email |-> session.customer_email]

\* A request to /exito.
Exito(session_id, outcome) ==
    /\ page' = ExitoAnswer(session_id, outcome, SECRET_KEY)
    /\ UNCHANGED <<config, pipeline, calls, report>>

NextExito ==
    \/ \E r \in 1..MaxExitoDeliveries :
        \/ \E e \in Events : Webhook(r, e)
        \/ Extract(r)
        \/ \E outcome \in BillingOutcomes : BillingLookup(r, outcome)
        \/ Derive(r)
        \/ \E outcome \in SaveOutcomes : SaveSale(r, outcome)
        \/ \E ok \in BOOLEAN, t \in ClockReadings : Invoice(r, ok, t)
        \/ StartThread(r)
        \/ \E outcome \in ProviderOutcomes \cup {"not_called"} : SendEmailAsync(r, outcome)
        \/ Return(r)
    \/ \E session_id \in SessionIds, outcome \in RetrieveOutcomes : Exito(session_id, outcome)

SpecExito == Init /\ [][NextExito]_vars

(***************************************************************************)
(* Deliveries for one customer: the event of SessionA, delivered once or   *)
(* again, and the event of a second purchase at another price.             *)
(***************************************************************************)
RetryEvents == {Event(TRUE, TRUE, Completed, SessionA), Event(TRUE, TRUE, Completed, SessionC)}

InitRetry ==
    /\ SECRET_KEY = <<"5", "3", "c">>
    /\ BREVO_API_KEY = <<>>
    /\ InitPipeline
    /\ page = NoPage
    /\ calls = <<>>
    /\ report = NoReport

NextRetry ==
    \E r \in Deliveries :
        \/ \E e \in RetryEvents : Webhook(r, e)
        \/ Extract(r)
        \/ \E outcome \in BillingOutcomes : BillingLookup(r, outcome)
        \/ Derive(r)
        \/ \E outcome \in SaveOutcomes : SaveSale(r, outcome)
        \/ \E ok \in BOOLEAN, t \in ClockReadings : Invoice(r, ok, t)
        \/ StartThread(r)
        \/ \E outcome \in ProviderOutcomes \cup {"not_called"} : SendEmailAsync(r, outcome)
        \/ Return(r)

SpecRetry == InitRetry /\ [][NextRetry]_vars

(***************************************************************************)
(* license_generator.py called directly: generate_license_hash and         *)
(* verify_license on hardware ids, names and keys of every spelling.       *)
(***************************************************************************)
\* Number of direct calls in one behaviour.
MaxCalls == 2

\* One hardware id as the application reports it, with blanks around it, and
\* in lower case.
HardwareIds == {Str_hw1, <<" ">> \o Str_hw1 \o <<" ">>, Lower(Str_hw1)}

\* One name in two spellings (case, blanks around it), and another name.
UserNames == {Str_ada, <<"A", "d", "a">>, Str_bea}

\* LICENSE_SECRET_KEY unset (or empty), and set.
Secrets == {<<>>, <<"5", "3", "c">>}

\* The keys a user types for a hardware id and a name: the key of that pair,
\* the same key in lower case with blanks around it, and the key without
\* its first character.
TypedKeys(hardware_id, user_name, secret) ==
    LET k == GenerateLicenseHash(hardware_id, user_name, secret)
    IN {k, <<" ">> \o Lower(k) \o <<" ">>, Tail(k)}

InitLicense ==
    /\ SECRET_KEY \in Secrets
    /\ BREVO_API_KEY = <<>>
    /\ InitPipeline
    /\ page = NoPage
    /\ calls = <<>>
    /\ report = NoReport

\* generate_license_hash(hardware_id, user_name); raw_data is its local.
CallGenerate(hardware_id, user_name) ==
    /\ Len(calls) < MaxCalls
    /\ calls' = Append(calls,
           [fn |-> "generate_license_hash", key |-> <<>>,
            hardware_id |-> hardware_id, user_name |-> user_name,
            raw_data |-> IF DeriveRaises(SECRET_KEY) THEN <<>>
                         ELSE RawData(hardware_id, user_name, SECRET_KEY),
            result |-> GenerateLicenseHashCall(hardware_id, user_name, SECRET_KEY)])
    /\ UNCHANGED <<config, pipeline, page, report>>

\* verify_license(key, hardware_id, user_name)
CallVerify(key, hardware_id, user_name) ==
    /\ Len(calls) < MaxCalls
    /\ calls' = Append(calls,
           [fn |-> "verify_license", key |-> key,
            hardware_id |-> hardware_id, user_name |-> user_name,
            raw_data |-> <<>>,
            result |-> VerifyLicenseCall(key, hardware_id, user_name, SECRET_KEY)])
    /\ UNCHANGED <<config, pipeline, page, report>>

NextLicense ==
    \/ \E hardware_id \in HardwareIds, user_name \in UserNames :
           CallGenerate(hardware_id, user_name)
    \/ \E hardware_id \in HardwareIds, user_name \in UserNames :
           \E key \in TypedKeys(hardware_id, user_name, SECRET_KEY) :
               CallVerify(key, hardware_id, user_name)

SpecLicense == InitLicense /\ [][NextLicense]_vars


(***************************************************************************)
(* database.py read by the admin pages: get_all_sales, get_total_revenue,  *)
(* export_sales_csv.  Money read back as float is kept exact: an amount in *)
(* cents, a fee in thousandths of a cent (0.015 of a cent amount).         *)
(***************************************************************************)
\* Number of sales in the ledger the admin pages read.
MaxSales == 2

\* 0.015: the fee rate, in thousandths.
FeePerMille == 15
\* 0.25: the fee per transaction, in cents.
FeePerSale == 25
\* Thousandths of a cent in a cent.
MilliPerCent == 1000

\* The prices of the sales: 100.00, 200.00, 9.99 and 1.00.
Amounts == {10000, 20000, 999, 100}

\* What a read of the ledger can meet: rows, no connection (get_connection
\* returned None), an exception in the query.
ReadOutcomes == {"ok", "no_connection", "error"}

RECURSIVE SumAmount(_)
\* SELECT COALESCE(SUM(amount), 0) FROM ventas, in cents
SumAmount(table) ==
    IF table = <<>> THEN 0 ELSE Head(table).amount + SumAmount(Tail(table))

\* get_total_revenue charging the fee per transaction once for the ledger.
GetTotalRevenueOneFee(table, outcome) ==
    IF outcome # "ok" THEN [bruto |-> 0, neto |-> 0, comisiones |-> 0]
    ELSE LET total_bruto == SumAmount(table) * MilliPerCent
             total_comisiones == SumAmount(table) * FeePerMille + FeePerSale * MilliPerCent
         IN [bruto |-> total_bruto, neto |-> total_bruto - total_comisiones,
             comisiones |-> total_comisiones]

\* get_total_revenue(): (total_bruto, total_neto, total_comisiones), in
\* thousandths of a cent; (0.0, 0.0, 0.0) without a connection and after an
\* exception.
GetTotalRevenue(table, outcome) ==
    IF outcome # "ok" THEN [bruto |-> 0, neto |-> 0, comisiones |-> 0]
    ELSE LET total_bruto == SumAmount(table) * MilliPerCent
             num_ventas == Len(table)
             total_comisiones ==
                 SumAmount(table) * FeePerMille + num_ventas * FeePerSale * MilliPerCent
         IN [bruto |-> total_bruto, neto |-> total_bruto - total_comisiones,
             comisiones |-> total_comisiones]

\* round(x, 2) of an amount of m thousandths of a cent, in cents.  A value
\* half-way between two cents goes where its binary float lies: up tells.
RoundCents(m, up) ==
    LET q == m \div MilliPerCent
        rest == m % MilliPerCent
    IN IF 2 * rest > MilliPerCent \/ (2 * rest = MilliPerCent /\ up) THEN q + 1 ELSE q

\* str(x).replace('.', ',') of the float of c cents, c >= 0: the shortest
\* decimal that reads back as x ('100,0', '0,4', '9,99').
FloatStrComma(c) ==
    Digits(c \div 100) \o <<",">> \o
        (IF c % 10 = 0 THEN <<Digit((c % 100) \div 10)>>
         ELSE <<Digit((c % 100) \div 10), Digit(c % 10)>>)

\* A get_all_sales that returns the newest row only (a query with LIMIT 1).
GetAllSalesLimited(table, outcome) ==
    IF outcome # "ok" \/ table = <<>> THEN <<>> ELSE <<table[Len(table)]>>

\* get_all_sales(): ORDER BY created_at DESC.  Rows are inserted in the order
\* of their timestamps; rows of one timestamp are read newest id first.
GetAllSales(table, outcome) ==
    IF outcome # "ok" THEN <<>>
    ELSE [i \in 1..Len(table) |-> table[Len(table) + 1 - i]]

\* The line export_sales_csv writes for sale: comision and importe_neto are
\* the loop's variables, in cents.
CsvRow(sale, up) ==
    LET importe_bruto == sale.amount
        comision == RoundCents(importe_bruto * FeePerMille + FeePerSale * MilliPerCent, up)
        importe_neto == importe_bruto - comision
    IN [ID |-> sale.id, Licencia |-> sale.license_key,
        importe_bruto |-> importe_bruto, comision |-> comision,
        importe_neto |-> importe_neto,
        Importe_Bruto |-> FloatStrComma(importe_bruto),
        Comision_Stripe |-> FloatStrComma(comision),
        Importe_Neto |-> FloatStrComma(importe_neto),
        Moneda |-> sale.currency, Stripe_Session |-> sale.stripe_session_id]

\* export_sales_csv(): the lines after the header; '' when get_all_sales
\* returned no rows.  ties[i] tells where a half-way fee of line i goes.
ExportSalesCsv(table, outcome, ties) ==
    LET sales == GetAllSales(table, outcome)
    IN [i \in 1..Len(sales) |-> CsvRow(sales[i], ties[i])]

\* The arguments of save_sale for a sale of amount cents.
SaleArgs(amount) ==
    [InitLoc EXCEPT !.nombre = Str_bea, !.hw_id = Str_hw2, !.email = "bea@x",
                    !.license_key = GenerateLicenseHash(Str_hw2, Str_bea, SECRET_KEY),
                    !.amount = amount, !.currency = Upper(Str_eur),
                    !.session_id = "cs_B"]

InitAdmin ==
    /\ SECRET_KEY = <<"5", "3", "c">>
    /\ BREVO_API_KEY = <<>>
    /\ InitPipeline
    /\ page = NoPage
    /\ calls = <<>>
    /\ report = NoReport

\* save_sale(...) that commits.
SaveSaleCall(amount) ==
    /\ Len(ventas) < MaxSales
    /\ SaveSaleResult("ok") = "True"
    /\ ventas' = Insert(ventas, Row(next_id, clock, SaleArgs(amount)))
    /\ next_id' = next_id + 1
    /\ UNCHANGED <<config, views, clock, event, pc, loc, steps, log, response,
                   returned, thread>>

\* get_total_revenue(), called by /admin and /admin/export
ReadRevenue(outcome) ==
    /\ report.outcome # "reading"
    /\ report' = [fn |-> "get_total_revenue", outcome |-> outcome, rows |-> Len(ventas),
                  result |-> <<GetTotalRevenue(ventas, outcome)>>,
                  reads |-> <<outcome>>, seen |-> <<Len(ventas)>>, error |-> ""]
    /\ UNCHANGED <<config, pipeline, page, calls>>

\* export_sales_csv(), called by /admin/export/csv
ReadCsv(outcome, ties) ==
    /\ report.outcome # "reading"
    /\ report' = [fn |-> "export_sales_csv", outcome |-> outcome, rows |-> Len(ventas),
                  result |-> ExportSalesCsv(ventas, outcome, ties),
                  reads |-> <<outcome>>, seen |-> <<Len(ventas)>>, error |-> ""]
    /\ UNCHANGED <<config, pipeline, page, calls>>

\* ADMIN_PASSWORD, default 'admin123'
ADMIN_PASSWORD == "admin123"

\* The values of the query parameter key: absent, wrong, right.
Keys == {"", "guess", ADMIN_PASSWORD}

\* A get_sales_count that answers -1 when it cannot read.
GetSalesCountMinusOne(table, outcome) == IF outcome = "ok" THEN Len(table) ELSE -1

\* get_sales_count(): SELECT COUNT(*) FROM ventas, 0 when it fails
GetSalesCount(table, outcome) == IF outcome = "ok" THEN Len(table) ELSE 0

\* What the three password checks answer to a wrong key.
Unauthorized(fn) ==
    [fn |-> fn, outcome |-> "401", rows |-> Len(ventas), result |-> <<>>,
     reads |-> <<>>, seen |-> <<>>, error |-> "Acceso no autorizado"]

\* The locals of admin_panel and export_sales before their first read, and
\* the request in progress: reads are the outcomes of the reads made so far,
\* seen the number of rows in the table at each of them.
NoTotals == [bruto |-> 0, neto |-> 0, comisiones |-> 0]

Reading(fn) ==
    [fn |-> fn, outcome |-> "reading", rows |-> Len(ventas),
     result |-> <<[sales |-> <<>>, total_count |-> 0, totals |-> NoTotals]>>,
     reads |-> <<>>, seen |-> <<>>, error |-> ""]

\* One more read of the request in progress has returned.
AfterRead(locals, outcome, done) ==
    [report EXCEPT !.result = <<locals>>, !.reads = Append(@, outcome),
                   !.seen = Append(@, Len(ventas)),
                   !.outcome = IF done THEN "200" ELSE "reading"]

\* /admin: admin_panel() up to the password check.
AdminPanel(key) ==
    /\ report.outcome # "reading"
    /\ report' = IF key # ADMIN_PASSWORD THEN Unauthorized("/admin") ELSE Reading("/admin")
    /\ UNCHANGED <<config, pipeline, page, calls>>

\* admin_panel(): its next read, each on a connection of its own:
\* get_all_sales(), get_sales_count(), get_total_revenue(), then the page.
AdminPanelRead(outcome) ==
    /\ report.fn = "/admin" /\ report.outcome = "reading"
    /\ LET n == Len(report.reads) + 1
           locals == report.result[1]
       IN report' =
            CASE n = 1 -> AfterRead([locals EXCEPT !.sales = GetAllSales(ventas, outcome)],
                                    outcome, FALSE)
              [] n = 2 -> AfterRead([locals EXCEPT !.total_count = GetSalesCount(ventas, outcome)],
                                    outcome, FALSE)
              [] OTHER -> AfterRead([locals EXCEPT !.totals = GetTotalRevenue(ventas, outcome)],
                                    outcome, TRUE)
    /\ UNCHANGED <<config, pipeline, page, calls>>

\* /admin/export: export_sales() up to the password check.
ExportSales(key) ==
    /\ report.outcome # "reading"
    /\ report' = IF key # ADMIN_PASSWORD THEN Unauthorized("/admin/export")
                 ELSE Reading("/admin/export")
    /\ UNCHANGED <<config, pipeline, page, calls>>

\* export_sales(): get_all_sales(), then get_total_revenue() and the JSON
\* body with total_ventas = len(sales); the loop over sales rewrites
\* created_at in the dictionaries get_all_sales returned, not in the table.
ExportSalesRead(outcome) ==
    /\ report.fn = "/admin/export" /\ report.outcome = "reading"
    /\ LET n == Len(report.reads) + 1
           locals == report.result[1]
       IN report' =
            IF n = 1
            THEN AfterRead([locals EXCEPT !.sales = GetAllSales(ventas, outcome)],
                           outcome, FALSE)
            ELSE AfterRead([locals EXCEPT !.totals = GetTotalRevenue(ventas, outcome),
                                          !.total_count = Len(locals.sales)],
                           outcome, TRUE)
    /\ UNCHANGED <<config, pipeline, page, calls>>

\* The answer of export_sales_csv_route() to the right key.
CsvAnswer(csv_content, outcome) ==
    [fn |-> "/admin/export-csv",
     outcome |-> IF csv_content = <<>> THEN "404" ELSE "200",
     rows |-> Len(ventas), result |-> csv_content,
     reads |-> <<outcome>>, seen |-> <<Len(ventas)>>,
     error |-> IF csv_content = <<>> THEN "No hay ventas para exportar" ELSE ""]

\* An export route that empties the table once the rows are exported.
ExportSalesCsvRouteArchiving(key, outcome, ties) ==
    /\ report.outcome # "reading"
    /\ report' = IF key # ADMIN_PASSWORD THEN Unauthorized("/admin/export-csv")
                 ELSE CsvAnswer(ExportSalesCsv(ventas, outcome, ties), outcome)
    /\ ventas' = IF key = ADMIN_PASSWORD /\ outcome = "ok" THEN <<>> ELSE ventas
    /\ UNCHANGED <<config, next_id, clock, event, pc, loc, steps, log, response,
                   returned, thread, page, calls>>

\* /admin/export-csv: export_sales_csv_route(); 404 when there is nothing to
\* export.
ExportSalesCsvRoute(key, outcome, ties) ==
    /\ report.outcome # "reading"
    /\ report' = IF key # ADMIN_PASSWORD THEN Unauthorized("/admin/export-csv")
                 ELSE CsvAnswer(ExportSalesCsv(ventas, outcome, ties), outcome)
    /\ UNCHANGED <<config, pipeline, page, calls>>

NextAdmin ==
    \/ \E amount \in Amounts : SaveSaleCall(amount)
    \/ \E outcome \in ReadOutcomes : ReadRevenue(outcome)
    \/ \E outcome \in ReadOutcomes, ties \in [1..MaxSales -> BOOLEAN] :
           ReadCsv(outcome, ties)
    \/ \E key \in Keys : AdminPanel(key)
    \/ \E outcome \in ReadOutcomes : AdminPanelRead(outcome)
    \/ \E key \in Keys : ExportSales(key)
    \/ \E outcome \in ReadOutcomes : ExportSalesRead(outcome)
    \/ \E key \in Keys, outcome \in ReadOutcomes, ties \in [1..MaxSales -> BOOLEAN] :
           ExportSalesCsvRoute(key, outcome, ties)

SpecAdmin == InitAdmin /\ [][NextAdmin]_vars

(***************************************************************************)
(* invoice_generator.py called directly: generate_invoice_pdf for a range  *)
(* of gross amounts                                                        *)
(***************************************************************************)
\* Documents generated per behaviour.
MaxInvoices == 1

\* Gross amounts up to this many cents are drawn, and 300.00 besides: more
\* than one period of 100 / 121.
MaxGross == 125

GrossAmounts == 0..MaxGross \cup {30000}

\* generate_invoice_pdf(nombre, email, amount_total, currency,
\* numero_factura = generate_invoice_number()) with amount_total = gross / 100
GenerateInvoicePdf(gross) ==
    /\ Len(calls) < MaxInvoices
    /\ LET doc == InvoiceDoc(SaleArgs(gross), GenerateInvoiceNumber(0, clock)) IN
       calls' = Append(calls,
           [fn |-> "generate_invoice_pdf", amount_total |-> gross, doc |-> doc,
            printed |-> InvoiceTotals(doc)])
    /\ UNCHANGED <<config, pipeline, page, report>>

NextInvoice == \E gross \in GrossAmounts : GenerateInvoicePdf(gross)

SpecInvoice == InitAdmin /\ [][NextInvoice]_vars

(***************************************************************************)
(* Vocabulary of the properties                                            *)
(***************************************************************************)
\* Delivery r took the step name / took it with success / with failure.
Did(r, name) == \E i \in DOMAIN steps[r] : steps[r][i].step = name
Ok(r, name) == \E i \in DOMAIN steps[r] : steps[r][i].step = name /\ steps[r][i].ok
Failed(r, name) == \E i \in DOMAIN steps[r] : steps[r][i].step = name /\ ~steps[r][i].ok

\* The id of the row delivery r inserted (0: none).
SaleRef(r) ==
    IF Ok(r, "save")
    THEN steps[r][CHOOSE i \in DOMAIN steps[r] : steps[r][i].step = "save"].ref
    ELSE 0

\* Delivery r is a fulfilment run: webhook() called handle_successful_payment.
IsRun(r) ==
    /\ pc[r] # "idle"
    /\ event[r].payload_ok /\ event[r].signature_ok
    /\ event[r].type = Completed /\ event[r].session.payment_status = "paid"

InLog(r, line) == \E i \in DOMAIN log[r] : log[r][i] = line

\* The outer handler of delivery r ran: the run was aborted.
Aborted(r) == \E exc \in Exceptions : InLog(r, "error_procesando_pago: " \o exc)

\* A step of the request thread of delivery r.
RequestStep(r) ==
    \/ Extract(r)
    \/ \E outcome \in BillingOutcomes : BillingLookup(r, outcome)
    \/ Derive(r)
    \/ \E outcome \in SaveOutcomes : SaveSale(r, outcome)
    \/ \E ok \in BOOLEAN, t \in ClockReadings : Invoice(r, ok, t)
    \/ StartThread(r)
    \/ Return(r)

Success200 == [code |-> 200, body |-> "success"]

(***************************************************************************)
(* Properties                                                              *)
(***************************************************************************)
\* C1: the ledger holds at most one Sale row for any external payment-session
\* id, also after a redelivery of the same event.
C1_AtMostOneSalePerSession ==
    \A i, j \in DOMAIN ventas :
        ventas[i].stripe_session_id = ventas[j].stripe_session_id => i = j

\* C2: when the same paid event is delivered twice and both inserts succeed,
\* both runs derive the same license key and the ledger holds two rows with
\* that session id and that license key.
C2_RedeliveryAddsSecondRow ==
    \A r, q \in Deliveries :
        (r < q /\ event[r] = event[q] /\ Ok(r, "save") /\ Ok(q, "save")) =>
            /\ loc[r].license_key # None
            /\ loc[r].license_key = loc[q].license_key
            /\ \E i, j \in DOMAIN ventas :
                 /\ i # j
                 /\ ventas[i].id = SaleRef(r) /\ ventas[j].id = SaleRef(q)
                 /\ ventas[i].stripe_session_id = event[r].session.id
                 /\ ventas[j].stripe_session_id = event[r].session.id
                 /\ ventas[i].license_key = loc[r].license_key
                 /\ ventas[j].license_key = loc[r].license_key

C2_Witness ==
    \E r, q \in Deliveries :
        /\ r < q /\ event[r] = event[q] /\ Ok(r, "save") /\ Ok(q, "save")
        /\ pc[r] = "responded" /\ pc[q] = "responded"
        /\ Len(ventas) = 2

\* C3: a run whose key derivation fails (secret absent or empty) aborts at
\* that step: it inserts no Sale row, synthesizes no invoice and starts no
\* notification dispatch; with an empty secret the ledger stays empty.
C3_DeriveFailureAborts ==
    /\ \A r \in Deliveries :
         Failed(r, "derive") =>
            /\ pc[r] \in {"aborted", "responded"}
            /\ ~Did(r, "save") /\ ~Did(r, "invoice") /\ ~Did(r, "dispatch")
            /\ loc[r].license_key = None
            /\ loc[r].numero_factura = None /\ loc[r].invoice_pdf = <<>>
            /\ thread[r] = InitThread
    /\ SECRET_KEY = <<>> =>
         /\ ventas = <<>>
         /\ \A r \in Deliveries : thread[r].state = "none" /\ loc[r].invoice_pdf = <<>>

C3_Witness ==
    \E r \in Deliveries : Failed(r, "derive") /\ pc[r] = "responded" /\ SECRET_KEY = <<>>

\* C4: a run whose ledger insert fails still proceeds: it keeps the derived
\* key, attempts the invoice and starts the dispatch with that key.
C4_LedgerFailureProceeds ==
    \A r \in Deliveries :
        Failed(r, "save") =>
            /\ pc[r] \in {"invoice", "dispatch", "finish", "responded"}
            /\ loc[r].license_key = GenerateLicenseHash(loc[r].hw_id, loc[r].nombre, SECRET_KEY)
            /\ pc[r] # "invoice" => Did(r, "invoice")
            /\ pc[r] \in {"finish", "responded"} =>
                 Did(r, "dispatch") /\ thread[r].state # "none"
            /\ thread[r].email_data # <<>> =>
                 thread[r].email_data[1].license_key = loc[r].license_key
            /\ pc[r] # "responded" => ENABLED RequestStep(r)

C4_Witness ==
    \E r \in Deliveries :
        /\ Failed(r, "save") /\ pc[r] = "responded"
        /\ thread[r].state = "ended" /\ thread[r].email_data # <<>>
        /\ thread[r].email_data[1].license_key # None

\* C5: a run whose invoice synthesis fails still invokes the Dispatcher, with
\* no invoice document, filename or number; the e-mail has no attachment and
\* the dispatch result is that of the send alone.
C5_InvoiceFailureStillDispatches ==
    \A r \in Deliveries :
        Failed(r, "invoice") =>
            /\ pc[r] \in {"dispatch", "finish", "responded"}
            /\ loc[r].invoice_pdf = <<>>
            /\ loc[r].invoice_filename = None
            /\ loc[r].numero_factura = None
            /\ pc[r] # "dispatch" => thread[r].state # "none"
            /\ thread[r].email_data # <<>> =>
                 /\ thread[r].email_data[1].attachment = <<>>
                 /\ ~thread[r].email_data[1].invoice_section
                 /\ thread[r].email_data[1].invoice_number = None
                 /\ thread[r].email_data[1].subject = "Su licencia"
            /\ thread[r].state = "ended" =>
                 thread[r].result = SendLicenseEmail(BREVO_API_KEY, thread[r].outcome)

C5_Witness ==
    \E r \in Deliveries :
        /\ Failed(r, "invoice") /\ thread[r].state = "ended"
        /\ thread[r].result = "true" /\ thread[r].email_data[1].attachment = <<>>

\* C6: a failed dispatch (send returned false, or raised inside the detached
\* task) undoes nothing and does not reach the caller: the Sale row of the run
\* is in the ledger as inserted, and the webhook answers as for a successful
\* dispatch.
C6_DispatchFailureIsolated ==
    \A r \in Deliveries :
        (thread[r].state = "ended" /\ thread[r].result \in {"false", "raised"}) =>
            /\ pc[r] \in {"finish", "responded"}
            /\ Ok(r, "save") =>
                 \E i \in DOMAIN ventas :
                     ventas[i] = Row(SaleRef(r), ventas[i].created_at, loc[r])
            /\ pc[r] = "responded" =>
                 /\ response[r] = Success200
                 /\ returned[r] = "None"
                 /\ \A q \in Deliveries :
                      (pc[q] = "responded" /\ thread[q].result = "true") =>
                          response[q] = response[r] /\ returned[q] = returned[r]

C6_Witness ==
    \E r \in Deliveries :
        /\ thread[r].state = "ended" /\ thread[r].result = "raised"
        /\ Ok(r, "save") /\ pc[r] = "responded"

\* C7: once key derivation has succeeded, the run goes through every later
\* step and returns to its caller without an exception, whatever ledger,
\* invoice and dispatch failures occur.
C7_RunCompletesAfterDerive ==
    \A r \in Deliveries :
        Ok(r, "derive") =>
            /\ pc[r] \in {"save", "invoice", "dispatch", "finish", "responded"}
            /\ pc[r] = "responded" =>
                 /\ Did(r, "save") /\ Did(r, "invoice") /\ Did(r, "dispatch")
                 /\ returned[r] = "None"
                 /\ response[r] = Success200
            /\ pc[r] # "responded" => ENABLED RequestStep(r)

C7_Witness ==
    \E r \in Deliveries :
        /\ Ok(r, "derive") /\ Failed(r, "save") /\ Failed(r, "invoice")
        /\ thread[r].result = "false" /\ pc[r] = "responded"


\* What a caller that was told the status of each step would know of run r.
StepStatus(r) ==
    [derive |-> Ok(r, "derive"), save |-> Ok(r, "save"), invoice |-> Ok(r, "invoice")]

\* C8 (as stated): the orchestrator reports the success or failure of each
\* step to its caller: two runs whose steps ended differently hand different
\* results to their callers.
C8_StatusReportedToCaller ==
    \A r, q \in Deliveries :
        (IsRun(r) /\ IsRun(q) /\ pc[r] = "responded" /\ pc[q] = "responded"
            /\ returned[r] = returned[q] /\ response[r] = response[q]) =>
                StepStatus(r) = StepStatus(q)

\* C8 (amended): a fulfilment run hands no status to its caller:
\* handle_successful_payment returns None and the webhook answers 200
\* 'success' whatever the steps did; each step's success or failure is
\* reported by a log line of its own.
C8_StepsLoggedNothingReturned ==
    \A r \in Deliveries :
        (IsRun(r) /\ pc[r] = "responded") =>
            /\ returned[r] = "None"
            /\ response[r] = Success200
            /\ Ok(r, "derive") <=> InLog(r, "licencia_generada")
            /\ Failed(r, "derive") <=> InLog(r, "error_procesando_pago: ValueError")
            /\ Ok(r, "save") <=> InLog(r, "venta_guardada")
            /\ Failed(r, "save") <=> InLog(r, "venta_no_guardada")
            /\ Ok(r, "invoice") <=> InLog(r, "factura_generada")
            /\ Failed(r, "invoice") <=> InLog(r, "error_generando_factura")
            /\ Did(r, "dispatch") <=> InLog(r, "iniciando_envio")
            /\ thread[r].state = "ended" =>
                 /\ thread[r].result = "true" <=> thread[r].log = <<"email_enviado">>
                 /\ thread[r].result = "false" <=> thread[r].log = <<"no_se_pudo_enviar_email">>
                 /\ thread[r].result = "raised" <=> thread[r].log = <<"error_enviando_email">>

C8_Witness ==
    \E r, q \in Deliveries :
        /\ IsRun(r) /\ IsRun(q) /\ pc[r] = "responded" /\ pc[q] = "responded"
        /\ StepStatus(r) # StepStatus(q)
        /\ thread[r].state = "ended" /\ Failed(r, "save") /\ Ok(r, "invoice")

\* C9: only a failure of key derivation aborts a fulfilment run; every other
\* error (reading the event, billing lookup, ledger, invoice, dispatch) is
\* logged and the run goes on to the remaining steps.
C9_OnlyDeriveFailureAborts ==
    \A r \in Deliveries :
        /\ Aborted(r) => Failed(r, "derive")
        /\ (pc[r] = "responded" /\ IsRun(r) /\ ~Failed(r, "derive")) =>
             Did(r, "save") /\ Did(r, "invoice") /\ Did(r, "dispatch")

\* C10: send_license_email never raises: it returns false for every failure
\* of the request and without an API key, and true only when the provider
\* call completed.
C10_SendNeverRaises ==
    \A r \in Deliveries :
        thread[r].state = "ended" =>
            /\ thread[r].result \in {"true", "false"}
            /\ thread[r].result = "true" <=> thread[r].outcome = "accepted"

(***************************************************************************)
(* Properties of generate_license_hash and verify_license                  *)
(***************************************************************************)
\* C11: the license key depends on the hardware id, the name and the secret
\* alone: two fulfilment runs that derive from the same hardware id and name
\* get the same key, and two Sale rows with the same hardware id and name
\* hold the same key, whatever their time, sale id and amount, and however
\* often an event is delivered again.
C11_KeyDependsOnInputsOnly ==
    /\ \A r, q \in Deliveries :
         (Ok(r, "derive") /\ Ok(q, "derive")
             /\ loc[r].hw_id = loc[q].hw_id /\ loc[r].nombre = loc[q].nombre) =>
                 loc[r].license_key = loc[q].license_key
    /\ \A i, j \in DOMAIN ventas :
         (ventas[i].hw_id = ventas[j].hw_id /\ ventas[i].nombre = ventas[j].nombre) =>
             ventas[i].license_key = ventas[j].license_key

C11_Witness ==
    \E i, j \in DOMAIN ventas :
        /\ ventas[i].id # ventas[j].id
        /\ ventas[i].amount # ventas[j].amount
        /\ ventas[i].created_at # ventas[j].created_at
        /\ ventas[i].hw_id = ventas[j].hw_id /\ ventas[i].nombre = ventas[j].nombre
        /\ ventas[i].license_key = ventas[j].license_key
        /\ ventas[i].license_key # None

IsGenerate(c) == c.fn = "generate_license_hash" /\ c.result.raised = ""
IsVerify(c) == c.fn = "verify_license" /\ c.result.raised = ""

\* Two texts that differ at most in letter case and in blanks around them.
CaseOrBlanksApart(a, b) == Lower(Strip(a)) = Lower(Strip(b))

\* Two texts that differ at most in blanks around them.
BlanksApart(a, b) == Strip(a) = Strip(b)

SamePair(c, d) == c.hardware_id = d.hardware_id /\ c.user_name = d.user_name

\* C12: two derivations whose names differ only in letter case or in blanks
\* around them, and whose hardware ids differ only in blanks around them,
\* give the same key; hardware ids that differ in letter case give different
\* digest inputs.
C12_NormalisationInvariance ==
    \A i, j \in DOMAIN calls :
        (IsGenerate(calls[i]) /\ IsGenerate(calls[j])) =>
            /\ (BlanksApart(calls[i].hardware_id, calls[j].hardware_id)
                  /\ CaseOrBlanksApart(calls[i].user_name, calls[j].user_name)) =>
                    calls[i].result.value = calls[j].result.value
            /\ (~BlanksApart(calls[i].hardware_id, calls[j].hardware_id)
                  /\ CaseOrBlanksApart(calls[i].hardware_id, calls[j].hardware_id)) =>
                    calls[i].raw_data # calls[j].raw_data

C12_Witness ==
    \E i, j \in DOMAIN calls :
        /\ IsGenerate(calls[i]) /\ IsGenerate(calls[j])
        /\ calls[i].hardware_id # calls[j].hardware_id
        /\ calls[i].user_name # calls[j].user_name
        /\ Upper(calls[i].user_name) # Upper(calls[j].user_name)
        /\ Lower(calls[i].user_name) # calls[j].user_name
        /\ calls[i].result.value = calls[j].result.value

\* C13: with a configured secret, verify_license accepts the key that
\* generate_license_hash returned for the same hardware id and name.
C13_RoundTrip ==
    \A i, j \in DOMAIN calls :
        (IsGenerate(calls[j]) /\ calls[i].fn = "verify_license"
            /\ SamePair(calls[i], calls[j])
            /\ calls[i].key = calls[j].result.value) =>
                calls[i].result = Returned(<<"True">>)

C13_Witness ==
    \E i, j \in DOMAIN calls :
        /\ IsGenerate(calls[j]) /\ IsVerify(calls[i]) /\ j < i
        /\ SamePair(calls[i], calls[j])
        /\ calls[i].key = calls[j].result.value
        /\ \E m \in 1..KeyLen : calls[i].key[m] \in {"A", "B", "C", "D", "E", "F"}

\* C14: verify_license returns whether trim(upper(key)) is the key that
\* generate_license_hash returns for the hardware id and the name; it accepts
\* a key that differs from that key only in letter case or in blanks around it.
C14_VerifyNormalisesKey ==
    \A i, j \in DOMAIN calls :
        (IsGenerate(calls[j]) /\ IsVerify(calls[i]) /\ SamePair(calls[i], calls[j])) =>
            /\ calls[i].result.value =
                 Bool(Strip(Upper(calls[i].key)) = calls[j].result.value)
            /\ CaseOrBlanksApart(calls[i].key, calls[j].result.value) =>
                 calls[i].result.value = <<"True">>

C14_Witness ==
    \E i, j \in DOMAIN calls :
        /\ IsGenerate(calls[j]) /\ IsVerify(calls[i]) /\ SamePair(calls[i], calls[j])
        /\ calls[i].key # calls[j].result.value
        /\ calls[i].key # Upper(calls[i].key)
        /\ calls[i].key # Strip(calls[i].key)
        /\ calls[i].result.value = <<"True">>

UpperHex == {"0", "1", "2", "3", "4", "5", "6", "7", "8", "9", "A", "B", "C", "D", "E", "F"}

\* C15: without a secret every call of generate_license_hash and of
\* verify_license raises the configuration error (ValueError) and returns
\* nothing; with a secret generate_license_hash returns a key of 24 upper-case
\* hexadecimal characters for every hardware id and name.
C15_SecretDecidesFailure ==
    \A i \in DOMAIN calls :
        /\ SECRET_KEY = <<>> => calls[i].result = Raised("ValueError")
        /\ (SECRET_KEY # <<>> /\ calls[i].fn = "generate_license_hash") =>
             /\ calls[i].result.raised = ""
             /\ Len(calls[i].result.value) = KeyLen
             /\ \A m \in 1..KeyLen : calls[i].result.value[m] \in UpperHex
        /\ (SECRET_KEY # <<>> /\ calls[i].fn = "verify_license") =>
             calls[i].result.raised = ""

C15_Witness ==
    /\ SECRET_KEY = <<>>
    /\ \E i, j \in DOMAIN calls :
         /\ calls[i].fn = "generate_license_hash" /\ calls[j].fn = "verify_license"
         /\ calls[i].result.raised = "ValueError" /\ calls[j].result.raised = "ValueError"

(***************************************************************************)
(* Properties of the success page                                          *)
(***************************************************************************)
\* The page shows a license key.
ShowsKey == page.code = 200 /\ page.license_key # None

\* The request named a session and the provider returned it.
Retrieved ==
    /\ \E s \in Sessions : s.id = page.session_id
    /\ page.template # "error.html: Error al verificar el pago."

\* C16: the key the success page shows for a paid session is the key the
\* fulfilment run of that session derived, stored in its Sale row and handed
\* to the e-mail sender.
C16_PageKeyIsFulfilmentKey ==
    ShowsKey =>
        /\ \A r \in Deliveries :
             (IsRun(r) /\ event[r].session.id = page.session_id) =>
                /\ Ok(r, "derive") => loc[r].license_key = page.license_key
                /\ thread[r].email_data # <<>> =>
                     thread[r].email_data[1].license_key = page.license_key
        /\ \A i \in DOMAIN ventas :
             ventas[i].stripe_session_id = page.session_id =>
                 ventas[i].license_key = page.license_key

C16_Witness ==
    /\ ShowsKey
    /\ \E r \in Deliveries, i \in DOMAIN ventas :
         /\ IsRun(r) /\ event[r].session.id = page.session_id
         /\ ventas[i].stripe_session_id = page.session_id
         /\ ventas[i].license_key = page.license_key
         /\ thread[r].email_data # <<>>
         /\ thread[r].email_data[1].license_key = page.license_key

\* C17 (as stated): the success page shows the license key for every session
\* whose payment status is paid, and no key for a session that is not paid.
C17_KeyShownForEveryPaidSession ==
    Retrieved =>
        \A s \in Sessions :
            s.id = page.session_id => (ShowsKey <=> s.payment_status = "paid")

\* C17 (amended): for a session the provider returns as paid the success
\* page shows the license key when the secret is configured, whatever the
\* webhook fulfilment did or did not do, and answers 500 without a key when
\* it is not; for a session that is not paid, or that cannot be retrieved,
\* it shows an error page without a key.
C17_KeyShownForPaidSessionWithSecret ==
    /\ Retrieved =>
         \A s \in Sessions :
             s.id = page.session_id =>
                /\ (s.payment_status = "paid" /\ SECRET_KEY # <<>>) =>
                     /\ page.code = 200
                     /\ page.license_key =
                          GenerateLicenseHash(MetaGet(s.metadata, "hw_id"),
                                              MetaGet(s.metadata, "nombre"), SECRET_KEY)
                /\ (s.payment_status = "paid" /\ SECRET_KEY = <<>>) =>
                     page.code = 500 /\ page.license_key = None
                /\ s.payment_status # "paid" =>
                     page.code = 400 /\ page.license_key = None
    /\ ~Retrieved => page.license_key = None

C17_Witness ==
    /\ ShowsKey
    /\ \E r \in Deliveries :
         /\ IsRun(r) /\ event[r].session.id = page.session_id
         /\ Failed(r, "save") /\ Failed(r, "invoice")
         /\ thread[r].result = "false" /\ pc[r] = "responded"

(***************************************************************************)
(* Properties of the ledger                                                *)
(***************************************************************************)
\* Delivery r commits its INSERT in this step.
Inserts(r) == ~Ok(r, "save") /\ Ok(r, "save")'

\* C18: the ledger is append-only: a step changes the table only by a
\* successful insert, which adds one row with an id no row has, and leaves
\* every row there was as it was; a successful insert always adds its row.
C18_LedgerAppendOnly ==
    [][/\ ventas' # ventas =>
            /\ \E r \in Deliveries : Inserts(r)
            /\ Len(ventas') = Len(ventas) + 1
            /\ SubSeq(ventas', 1, Len(ventas)) = ventas
            /\ \A i \in DOMAIN ventas : ventas[i].id # ventas'[Len(ventas')].id
       /\ (\E r \in Deliveries : Inserts(r)) => Len(ventas') = Len(ventas) + 1]_vars

C18_Witness ==
    /\ Len(ventas) = 2
    /\ ventas[1].id # ventas[2].id
    /\ ventas[1].stripe_session_id = ventas[2].stripe_session_id
    /\ \A r \in Deliveries : thread[r].state = "ended"

\* The revenue of the first n rows of the ledger, by the formula
\* fees = G * 1.5% + n * 0.25, net = G - fees (in thousandths of a cent).
RevenueOf(n) ==
    LET G == SumAmount(SubSeq(ventas, 1, n)) * 1000
        fees == (G * 15) \div 1000 + n * 25000
    IN [bruto |-> G, neto |-> G - fees, comisiones |-> fees]

\* C19 (as stated): every call of get_total_revenue returns the revenue of
\* the rows in the ledger at the call.
C19_RevenueOfEveryCall ==
    report.fn = "get_total_revenue" => report.result = <<RevenueOf(report.rows)>>

\* C19 (amended): a call of get_total_revenue that reads the ledger returns
\* the revenue of the rows in the ledger at that call (fees 5.0 and net 295.0
\* for sales of 100.00 and 200.00); a call that gets no connection or whose
\* query fails returns (0.0, 0.0, 0.0).
C19_RevenueOfEveryRead ==
    report.fn = "get_total_revenue" =>
        /\ report.outcome = "ok" => report.result = <<RevenueOf(report.rows)>>
        /\ report.outcome # "ok" =>
             report.result = <<[bruto |-> 0, neto |-> 0, comisiones |-> 0]>>
        /\ (report.outcome = "ok" /\ report.rows = 2
              /\ {ventas[1].amount, ventas[2].amount} = {10000, 20000}) =>
                 /\ report.result[1].comisiones = 500000
                 /\ report.result[1].neto = 29500000

C19_Witness ==
    /\ report.fn = "get_total_revenue" /\ report.outcome = "ok" /\ report.rows = 2
    /\ ventas[1].amount = 10000 /\ ventas[2].amount = 20000
    /\ report.result[1].comisiones = 500000

RECURSIVE SumComision(_)
SumComision(lines) ==
    IF lines = <<>> THEN 0 ELSE Head(lines).comision + SumComision(Tail(lines))

\* C20: each line of the CSV has fee = gross * 1.5% + 0.25 and net = gross -
\* fee, so the fees of the lines add up to the fees get_total_revenue
\* reports for the same ledger.
C20_CsvFeesAddUpToRevenueFees ==
    (report.fn = "export_sales_csv" /\ report.outcome = "ok") =>
        /\ \A i \in DOMAIN report.result :
             /\ report.result[i].comision * 1000 =
                  report.result[i].importe_bruto * 15 + 25000
             /\ report.result[i].importe_neto =
                  report.result[i].importe_bruto - report.result[i].comision
        /\ SumComision(report.result) * 1000 = RevenueOf(report.rows).comisiones

(***************************************************************************)
(* C21 .. C30                                                              *)
(***************************************************************************)
\* The digit a character stands for.
DigitValue(ch) == CHOOSE d \in 0..9 : Digit(d) = ch

RECURSIVE Number(_)
\* The number a sequence of digits writes.
Number(ds) == IF ds = <<>> THEN 0 ELSE 10 * Number(SubSeq(ds, 1, Len(ds) - 1)) + DigitValue(ds[Len(ds)])

\* The cents a printed amount "<euros>.<cc> <CUR>" stands for.
PrintedCents(text) ==
    LET dot == CHOOSE i \in DOMAIN text : text[i] = "."
    IN 100 * Number(SubSeq(text, 1, dot - 1)) + Number(SubSeq(text, dot + 1, dot + 2))

Abs(n) == IF n < 0 THEN -n ELSE n

IsInvoiceCall(i) == i \in DOMAIN calls /\ calls[i].fn = "generate_invoice_pdf"

\* C21: for every gross amount with two decimals the printed base is the
\* cent amount nearest to gross / 1.21, the printed tax is gross - base, so
\* that base + tax is the printed gross; for 300.00 at 21% the base is 247.93
\* and the tax 52.07.
C21_BasePlusTaxIsGross ==
    \A i \in DOMAIN calls : IsInvoiceCall(i) =>
        LET gross == calls[i].amount_total
            base == PrintedCents(calls[i].printed.base_imponible)
            tax == PrintedCents(calls[i].printed.iva)
            total == PrintedCents(calls[i].printed.total)
        IN /\ total = gross
           /\ 2 * Abs((100 + IVA_PERCENT) * base - 100 * gross) <= 100 + IVA_PERCENT
           /\ tax = gross - base
           /\ base + tax = total
           /\ gross = 30000 =>
                /\ calls[i].printed.base_imponible = <<"2", "4", "7", ".", "9", "3", " ", "E", "U", "R">>
                /\ calls[i].printed.iva = <<"5", "2", ".", "0", "7", " ", "E", "U", "R">>

C21_Witness ==
    \E i \in DOMAIN calls :
        /\ IsInvoiceCall(i) /\ calls[i].amount_total = 30000
        /\ calls[i].doc.base_imponible = 24793 /\ calls[i].doc.iva = 5207

\* C22: any two invoice generations of fulfilment runs, for different events
\* too and within the same clock second too, get different reference
\* numbers.
C22_InvoiceNumbersUnique ==
    \A r, q \in Deliveries :
        (r # q /\ event[r] # event[q] /\ Ok(r, "invoice") /\ Ok(q, "invoice")) =>
            loc[r].numero_factura # loc[q].numero_factura

\* C28: a reference number generated in a run whose ledger insert succeeded
\* is year-monthDay-saleId with the sale id padded to 4 digits; the
\* year-monthDay-HHMMSS form appears only in runs without a sale id.
C28_NumberCarriesSaleId ==
    \A r \in Deliveries :
        (Ok(r, "save") /\ Ok(r, "invoice")) =>
            loc[r].numero_factura =
                Year \o <<"-">> \o MonthDay \o <<"-">> \o ZeroPad(Digits(SaleRef(r)), 4)

\* The row of the ledger with a given id.
RowWithId(id) == ventas[CHOOSE i \in DOMAIN ventas : ventas[i].id = id]

\* The name, hardware id, e-mail address and key of the event of delivery r.
OwnData(r) ==
    LET session == event[r].session
        nombre == MetaGet(session.metadata, "nombre")
        hw_id == MetaGet(session.metadata, "hw_id")
    IN [nombre |-> nombre, hw_id |-> hw_id, email |-> session.customer_email,
        license_key |-> GenerateLicenseHash(hw_id, nombre, SECRET_KEY)]

\* C23: runs for different events do not interfere under any interleaving:
\* the runs whose insert was committed added one row each, with distinct
\* ids, and the row and the e-mail of a run carry the name, hardware id,
\* address and key of that run's own event.
C23_RunsDoNotInterfere ==
    /\ Len(ventas) = Cardinality({r \in Deliveries : Ok(r, "save")})
    /\ \A i, j \in DOMAIN ventas : i # j => ventas[i].id # ventas[j].id
    /\ \A r, q \in Deliveries : (r # q /\ Ok(r, "save") /\ Ok(q, "save")) => SaleRef(r) # SaleRef(q)
    /\ \A r \in Deliveries : Ok(r, "save") =>
          /\ \E i \in DOMAIN ventas : ventas[i].id = SaleRef(r)
          /\ LET row == RowWithId(SaleRef(r)) IN
             [nombre |-> row.nombre, hw_id |-> row.hw_id, email |-> row.email,
              license_key |-> row.license_key] = OwnData(r)
    /\ \A r \in Deliveries : thread[r].email_data # <<>> =>
          LET data == thread[r].email_data[1] IN
          [nombre |-> data.nombre, hw_id |-> data.hw_id, email |-> data.to,
           license_key |-> data.license_key] = OwnData(r)

\* Two runs for different events, the second overtaking the first at the
\* ledger, both with their e-mail handed to the provider.
C23_Witness ==
    /\ event[1].session.id # event[2].session.id
    /\ Ok(1, "save") /\ Ok(2, "save") /\ SaleRef(2) < SaleRef(1)
    /\ thread[1].email_data # <<>> /\ thread[2].email_data # <<>>
    /\ thread[1].email_data[1].to # thread[2].email_data[1].to

\* Delivery r left no trace of a fulfilment run.
NoRun(r) ==
    /\ steps[r] = <<>> /\ loc[r] = InitLoc /\ thread[r] = InitThread
    /\ returned[r] = "not_called"

\* C24: a fulfilment run is started only for an event whose signature was
\* verified, of type checkout.session.completed, with payment status paid; an
\* event with an invalid payload or signature is answered 400 and causes no
\* derivation, no ledger insert, no invoice and no dispatch.
C24_RunOnlyForVerifiedPaidEvent ==
    /\ \A r \in Deliveries : ~NoRun(r) =>
          /\ event[r].payload_ok /\ event[r].signature_ok
          /\ event[r].type = Completed /\ event[r].session.payment_status = "paid"
    /\ \A r \in Deliveries : (pc[r] # "idle" /\ ~(event[r].payload_ok /\ event[r].signature_ok)) =>
          /\ response[r].code = 400
          /\ NoRun(r)
          /\ ~Did(r, "derive") /\ ~Did(r, "save") /\ ~Did(r, "invoice") /\ ~Did(r, "dispatch")
    /\ \A i \in DOMAIN ventas : \E r \in Deliveries : IsRun(r) /\ SaleRef(r) = ventas[i].id

\* An event with a bad signature was answered 400 while a verified paid
\* event went through its run.
C24_Witness ==
    \E r, q \in Deliveries :
        /\ pc[r] = "responded" /\ ~event[r].signature_ok /\ event[r].payload_ok
        /\ response[r].code = 400
        /\ IsRun(q) /\ Ok(q, "save") /\ Did(q, "dispatch")

\* The steps of handle_successful_payment in the order of its code.
RunOrder == <<"extract", "billing", "derive", "save", "invoice", "dispatch">>

C26_DispatchDetached ==
    \A r \in Deliveries :
        /\ pc[r] = "finish" => (thread[r].state \in {"started", "ended"} /\ ENABLED Return(r))
        /\ (pc[r] = "responded" /\ Did(r, "dispatch")) =>
              /\ response[r] = Success200 /\ returned[r] = "None"
              /\ log[r][Len(log[r])] = "licencia_generada"
              /\ \A i \in DOMAIN log[r] :
                    log[r][i] \notin {"email_enviado", "no_se_pudo_enviar_email",
                                      "error_enviando_email"}

\* The webhook has answered while the send of its run has not finished.
C26_Witness ==
    \E r \in Deliveries :
        /\ pc[r] = "responded" /\ response[r] = Success200
        /\ thread[r].state = "started" /\ thread[r].result = "none"

RECURSIVE SendAttempts(_)
\* The calls of send_license_email made by the deliveries 1 .. n.
SendAttempts(n) == IF n = 0 THEN 0 ELSE thread[n].attempts + SendAttempts(n - 1)

\* C27: a failed dispatch is never retried: each run makes at most one send
\* attempt, so the send attempts never outnumber the runs that reached the
\* dispatch step.
C27_AtMostOneSendPerRun ==
    /\ \A r \in Deliveries :
          /\ thread[r].attempts <= 1
          /\ thread[r].attempts = 1 => (Did(r, "dispatch") /\ thread[r].state = "ended")
          /\ thread[r].result # "none" => thread[r].attempts = 1
    /\ SendAttempts(MaxDeliveries) <= Cardinality({r \in Deliveries : Did(r, "dispatch")})

\* Two runs reached the dispatch step, the send of one failed and its thread
\* has ended after that one attempt.
C27_Witness ==
    /\ \A r \in Deliveries : Did(r, "dispatch")
    /\ \E r \in Deliveries :
          /\ thread[r].state = "ended" /\ thread[r].result = "false"
          /\ thread[r].outcome = "http_error" /\ thread[r].attempts = 1
    /\ SendAttempts(MaxDeliveries) < MaxDeliveries

\* C29: the admin and export operations (the list, the count, the revenue,
\* the JSON export, the CSV export) are read-only: a step in which one of
\* them answers, with the right password or a wrong one, leaves the rows of
\* the ledger and its id sequence as they were.
C29_AdminReadsLeaveLedger ==
    [][(report' # report) => (ventas' = ventas /\ next_id' = next_id)]_vars

\* The CSV export answered with the two rows of the ledger, which are still
\* there.
C29_Witness ==
    /\ report.fn = "/admin/export-csv" /\ report.outcome = "200"
    /\ Len(report.result) = 2 /\ Len(ventas) = 2
    /\ \A i \in 1..2 : report.result[i].importe_bruto = ventas[3 - i].amount

\* C30: in every reachable state the license key of every Sale row is the
\* key derived from the hardware id and the name of that same row under the
\* configured secret, and the key handed to the Dispatcher in a run is the
\* key in the row that run inserted.
C30_RowKeyIsDerivedKey ==
    /\ \A i \in DOMAIN ventas :
          /\ ~DeriveRaises(SECRET_KEY)
          /\ ventas[i].license_key =
                GenerateLicenseHash(ventas[i].hw_id, ventas[i].nombre, SECRET_KEY)
    /\ \A r \in Deliveries : (Ok(r, "save") /\ thread[r].email_data # <<>>) =>
          thread[r].email_data[1].license_key = RowWithId(SaleRef(r)).license_key

\* Two rows with different keys, and the e-mail of the run that inserted
\* the second handed to the provider.
C30_Witness ==
    /\ Len(ventas) = 2 /\ ventas[1].license_key # ventas[2].license_key
    /\ \E r \in Deliveries :
          /\ SaleRef(r) = ventas[2].id /\ thread[r].email_data # <<>>
          /\ thread[r].email_data[1].license_key = ventas[2].license_key

(***************************************************************************)
(* C31 .. C34                                                              *)
(***************************************************************************)
\* C34: in every e-mail handed to the provider by a run, the invoice
\* document, its filename and its number are all present or all absent, and
\* so the attachment, the invoice section and the subject "license and
\* invoice" come together or not at all.
C34_InvoicePartsTogether ==
    \A r \in Deliveries : thread[r].email_data # <<>> =>
        LET data == thread[r].email_data[1]
            document == loc[r].invoice_pdf # <<>>
        IN /\ document <=> Truthy(loc[r].invoice_filename)
           /\ document <=> Truthy(loc[r].numero_factura)
           /\ document <=> Ok(r, "invoice")
           /\ (data.attachment # <<>>) <=> document
           /\ data.invoice_section <=> document
           /\ (data.subject = "Su licencia y factura") <=> document
           /\ document =>
                /\ data.attachment[1].name = loc[r].invoice_filename
                /\ data.invoice_number = loc[r].numero_factura

\* One e-mail with the three invoice parts and one with none of them.
C34_Witness ==
    \E r, q \in Deliveries :
        /\ thread[r].email_data # <<>> /\ thread[r].email_data[1].attachment # <<>>
        /\ thread[r].email_data[1].invoice_section
        /\ thread[q].email_data # <<>> /\ thread[q].email_data[1].attachment = <<>>
        /\ ~thread[q].email_data[1].invoice_section
        /\ thread[q].email_data[1].subject = "Su licencia"

\* The admin request whose locals report holds has made its n-th read, and
\* that read failed.
ReadFailed(n) == Len(report.reads) >= n /\ report.reads[n] # "ok"

\* C32: a ledger read that cannot reach the store, or fails, returns what it
\* returns for an empty ledger instead of an error: the list no sales, the
\* count 0, the revenue (0, 0, 0), the CSV export the empty text, which the
\* CSV route answers with 404 and "no sales to export".
C32_FailedReadsLookEmpty ==
    /\ (report.fn \in {"/admin", "/admin/export"} /\ report.outcome \in {"reading", "200"}) =>
          /\ ReadFailed(1) => report.result[1].sales = <<>>
          /\ (report.fn = "/admin" /\ ReadFailed(2)) => report.result[1].total_count = 0
          /\ (report.fn = "/admin" /\ ReadFailed(3)) =>
                report.result[1].totals = [bruto |-> 0, neto |-> 0, comisiones |-> 0]
          /\ (report.fn = "/admin/export" /\ ReadFailed(2)) =>
                report.result[1].totals = [bruto |-> 0, neto |-> 0, comisiones |-> 0]
    /\ (report.fn = "get_total_revenue" /\ ReadFailed(1)) =>
          report.result = <<[bruto |-> 0, neto |-> 0, comisiones |-> 0]>>
    /\ (report.fn = "export_sales_csv" /\ ReadFailed(1)) => report.result = <<>>
    /\ (report.fn = "/admin/export-csv" /\ ReadFailed(1)) =>
          /\ report.result = <<>> /\ report.outcome = "404"
          /\ report.error = "No hay ventas para exportar"

\* The admin page answered 200 with no sales, count 0 and zero totals while
\* the ledger held two rows, its three reads having failed.
C32_Witness ==
    /\ report.fn = "/admin" /\ report.outcome = "200"
    /\ report.seen = <<2, 2, 2>> /\ Len(ventas) = 2
    /\ \A n \in 1..3 : ReadFailed(n)
    /\ report.reads[1] = "no_connection" /\ report.reads[2] = "error"
    /\ report.result[1].sales = <<>> /\ report.result[1].total_count = 0

\* An admin page or a JSON export has been answered from its reads.
Answered == report.fn \in {"/admin", "/admin/export"} /\ report.outcome = "200"

\* The count and the gross total of the answer are those of the sales it lists.
TotalsMatchList ==
    LET locals == report.result[1] IN
    /\ locals.total_count = Len(locals.sales)
    /\ locals.totals.bruto = SumAmount(locals.sales) * 1000

\* A row was inserted between two reads of the request.
InsertBetweenReads == \E n \in DOMAIN report.seen : report.seen[n] # report.seen[1]

HasDispatchOutcome(r) ==
    /\ thread[r].state = "ended"
    /\ thread[r].result \in {"true", "false", "raised"}
    /\ thread[r].log = AsyncLog(thread[r].result)

\* C33: every run that starts its e-mail thread eventually gets a dispatch
\* outcome, if the thread is scheduled fairly and the process keeps running;
\* the thread is a daemon thread, so a process that exits first ends it,
\* possibly before the send was attempted.
C33_StartedSendGetsOutcome ==
    \A r \in Deliveries :
        (thread[r].state = "started") ~> (HasDispatchOutcome(r) \/ thread[r].state = "killed")

\* The send of one run raised and was logged; the thread of another run was
\* ended by the exit of the process before it attempted its send.
C33_Witness ==
    \E r, q \in Deliveries :
        /\ HasDispatchOutcome(r) /\ thread[r].result = "raised" /\ Did(r, "dispatch")
        /\ thread[q].state = "killed" /\ thread[q].attempts = 0 /\ Did(q, "dispatch")

====
